---------------------------- MODULE Spec2Model ----------------------------
(***************************************************************************)
(* Model of the WhatsApp RAG chatbot's orchestration core.                 *)
(*                                                                         *)
(*   - the webhook handler   src/src/app/api/webhook/whatsapp/route.ts     *)
(*   - generateAutoResponse, in the variants the repository holds:         *)
(*       "rag"      src/src/lib/autoResponder.ts, lines 48-253             *)
(*       "session"  src/src/lib/autoResponder.ts, lines 297-421            *)
(*       "guard"    src/unnamed/part_000, lines 54-232                     *)
(*       "greeting" src/src/lib/language.ts, lines 73-246                  *)
(*       "basic"    src/unnamed/part_001, lines 76-238                     *)
(*   - detectLanguage        src/src/lib/language.ts, autoResponder.ts     *)
(*   - the chat endpoint     src/unnamed/part_006 (streaming) and          *)
(*                           src/src/app/api/chat/route.ts 21-116          *)
(*   - the settings endpoints        update-phone-settings/route.ts,       *)
(*                                   src/unnamed/part_005 and part_004     *)
(*   - speechToText          src/src/lib/speechToText.ts, part_001 30-52,  *)
(*                           src/unnamed/part_003                          *)
(*                                                                         *)
(* Every webhook request is a process; each await of the code is one       *)
(* atomic step, so requests interleave at the awaits as they do under the  *)
(* Node.js event loop.  Text is a sequence of characters, so that trim,    *)
(* toLowerCase and includes are computed as the code computes them.        *)
(* Emoji of the canned texts are written in ASCII, the one of the greeting *)
(* as its code point.                                                      *)
(***************************************************************************)
EXTENDS Integers, Sequences, FiniteSets, TLC

VARIABLES
    impl,       \* which generateAutoResponse the webhook route is linked with
    phoneCfg,   \* phone_document_mapping / file mapping of the business number
    messages,   \* table whatsapp_messages, in insertion order
    sessions,   \* table whatsapp_sessions, keyed by <<from_number, to_number>>
    sends,      \* per message id: the sendWhatsAppMessage calls made for it
    req,        \* the webhook requests: payload, position and locals
    calls,      \* per request: the store and collaborator calls it has made
    nEvents,    \* number of webhook requests received so far
    detect,     \* a call of detectLanguage: its input, the completion, its result
    stream,     \* the chat requests: route, position, response and stream
    mappings,   \* table phone_document_mapping, the rows of one phone number
    ragFiles,   \* table rag_files: the credentials of the file of the number
    setreq,     \* the settings requests: route, body, position and locals
    files,      \* the audio files under /tmp, by path
    stt,        \* the speechToText calls: audio, path, position and result
    clock       \* Date.now()

hookVars == <<impl, phoneCfg, messages, sessions, sends, req, calls, nEvents>>
otherVars == <<detect, stream, mappings, ragFiles, setreq, files, stt, clock>>
vars == <<impl, phoneCfg, messages, sessions, sends, req, calls, nEvents,
          detect, stream, mappings, ragFiles, setreq, files, stt, clock>>

---------------------------------------------------------------------------
(* Bounds *)

NProc == 2
MaxEvents == 2
MaxStored == 21     \* rows of an earlier conversation already in the store
MaxIndex == 6       \* chunks the knowledge index can rank for a query
MaxContent == 2     \* characters of the content of a language completion
MaxFragments == 3   \* chunks of a streamed completion
NChat == 2          \* chat requests under way at a time
NSettings == 2      \* settings requests
NSpeech == 2        \* speechToText calls
MaxClock == 2       \* milliseconds Date.now() runs through

Procs == 1..NProc

---------------------------------------------------------------------------
(* Text *)

\* A text is a sequence of characters.  A character below U+0100 is written as
\* the string that holds it, and a character from U+0100 on as the token "U+"
\* with its code point in hexadecimal, four digits at least ("U+03A3",
\* "U+4E2D", "U+1F600"): Tok.  U+0060 and U+00AD, which have no string to show,
\* are tokens as well.  The classes and mappings of characters are those of
\* the Unicode character database, as intervals of code points.
HexDigit == <<"0","1","2","3","4","5","6","7","8","9","A","B","C","D","E","F">>
RECURSIVE Hex(_)
Hex(n) == IF n < 16 THEN HexDigit[n + 1] ELSE Hex(n \div 16) \o HexDigit[(n % 16) + 1]
Tok(n) == "U+" \o (IF n < 4096 THEN "0" ELSE "") \o Hex(n)

\* the characters String.prototype.trim strips and \s matches (WhiteSpace and
\* LineTerminator): tab, LF, VT, FF, CR, space, U+00A0, U+1680,
\* U+2000..U+200A, U+2028, U+2029, U+202F, U+205F, U+3000 and U+FEFF; U+1680
\* and U+FEFF are written in either way
IsSpace(c) ==
    c \in {" ", "\t", "\n", "\r", "\f", "", " ", " ", "﻿",
           "U+1680", "U+2000", "U+2001", "U+2002", "U+2003", "U+2004", "U+2005",
           "U+2006", "U+2007", "U+2008", "U+2009", "U+200A", "U+2028", "U+2029",
           "U+202F", "U+205F", "U+3000", "U+FEFF"}

\* toLowerCase of the capitals below U+0100, and of the capitals whose lower
\* case is below U+0100
LowerLatin ==
    {<<"A", "a">>, <<"B", "b">>, <<"C", "c">>, <<"D", "d">>, <<"E", "e">>,
     <<"F", "f">>, <<"G", "g">>, <<"H", "h">>, <<"I", "i">>, <<"J", "j">>,
     <<"K", "k">>, <<"L", "l">>, <<"M", "m">>, <<"N", "n">>, <<"O", "o">>,
     <<"P", "p">>, <<"Q", "q">>, <<"R", "r">>, <<"S", "s">>, <<"T", "t">>,
     <<"U", "u">>, <<"V", "v">>, <<"W", "w">>, <<"X", "x">>, <<"Y", "y">>,
     <<"Z", "z">>, <<"À", "à">>, <<"Á", "á">>, <<"Â", "â">>, <<"Ã", "ã">>,
     <<"Ä", "ä">>, <<"Å", "å">>, <<"Æ", "æ">>, <<"Ç", "ç">>, <<"È", "è">>,
     <<"É", "é">>, <<"Ê", "ê">>, <<"Ë", "ë">>, <<"Ì", "ì">>, <<"Í", "í">>,
     <<"Î", "î">>, <<"Ï", "ï">>, <<"Ð", "ð">>, <<"Ñ", "ñ">>, <<"Ò", "ò">>,
     <<"Ó", "ó">>, <<"Ô", "ô">>, <<"Õ", "õ">>, <<"Ö", "ö">>, <<"Ø", "ø">>,
     <<"Ù", "ù">>, <<"Ú", "ú">>, <<"Û", "û">>, <<"Ü", "ü">>, <<"Ý", "ý">>,
     <<"Þ", "þ">>, <<"U+0178", "ÿ">>, <<"U+1E9E", "ß">>, <<"U+212A", "k">>,
     <<"U+212B", "å">>}
\* toLowerCase of the other capitals: <<first, last, step, lower case of
\* first>> stands for the capitals first, first + step, .. last, whose lower
\* cases lie at the same distance
LowerRuns ==
    {<<\h0100, \h012E, 2, \h0101>>, <<\h0132, \h0136, 2, \h0133>>,
     <<\h0139, \h0147, 2, \h013A>>, <<\h014A, \h0176, 2, \h014B>>,
     <<\h0179, \h017D, 2, \h017A>>, <<\h0181, \h0181, 1, \h0253>>,
     <<\h0182, \h0184, 2, \h0183>>, <<\h0186, \h0186, 1, \h0254>>,
     <<\h0187, \h0187, 1, \h0188>>, <<\h0189, \h018A, 1, \h0256>>,
     <<\h018B, \h018B, 1, \h018C>>, <<\h018E, \h018E, 1, \h01DD>>,
     <<\h018F, \h018F, 1, \h0259>>, <<\h0190, \h0190, 1, \h025B>>,
     <<\h0191, \h0191, 1, \h0192>>, <<\h0193, \h0193, 1, \h0260>>,
     <<\h0194, \h0194, 1, \h0263>>, <<\h0196, \h0196, 1, \h0269>>,
     <<\h0197, \h0197, 1, \h0268>>, <<\h0198, \h0198, 1, \h0199>>,
     <<\h019C, \h019C, 1, \h026F>>, <<\h019D, \h019D, 1, \h0272>>,
     <<\h019F, \h019F, 1, \h0275>>, <<\h01A0, \h01A4, 2, \h01A1>>,
     <<\h01A6, \h01A6, 1, \h0280>>, <<\h01A7, \h01A7, 1, \h01A8>>,
     <<\h01A9, \h01A9, 1, \h0283>>, <<\h01AC, \h01AC, 1, \h01AD>>,
     <<\h01AE, \h01AE, 1, \h0288>>, <<\h01AF, \h01AF, 1, \h01B0>>,
     <<\h01B1, \h01B2, 1, \h028A>>, <<\h01B3, \h01B5, 2, \h01B4>>,
     <<\h01B7, \h01B7, 1, \h0292>>, <<\h01B8, \h01B8, 1, \h01B9>>,
     <<\h01BC, \h01BC, 1, \h01BD>>, <<\h01C4, \h01C4, 1, \h01C6>>,
     <<\h01C5, \h01C5, 1, \h01C6>>, <<\h01C7, \h01C7, 1, \h01C9>>,
     <<\h01C8, \h01C8, 1, \h01C9>>, <<\h01CA, \h01CA, 1, \h01CC>>,
     <<\h01CB, \h01DB, 2, \h01CC>>, <<\h01DE, \h01EE, 2, \h01DF>>,
     <<\h01F1, \h01F1, 1, \h01F3>>, <<\h01F2, \h01F4, 2, \h01F3>>,
     <<\h01F6, \h01F6, 1, \h0195>>, <<\h01F7, \h01F7, 1, \h01BF>>,
     <<\h01F8, \h021E, 2, \h01F9>>, <<\h0220, \h0220, 1, \h019E>>,
     <<\h0222, \h0232, 2, \h0223>>, <<\h023A, \h023A, 1, \h2C65>>,
     <<\h023B, \h023B, 1, \h023C>>, <<\h023D, \h023D, 1, \h019A>>,
     <<\h023E, \h023E, 1, \h2C66>>, <<\h0241, \h0241, 1, \h0242>>,
     <<\h0243, \h0243, 1, \h0180>>, <<\h0244, \h0244, 1, \h0289>>,
     <<\h0245, \h0245, 1, \h028C>>, <<\h0246, \h024E, 2, \h0247>>,
     <<\h0370, \h0372, 2, \h0371>>, <<\h0376, \h0376, 1, \h0377>>,
     <<\h037F, \h037F, 1, \h03F3>>, <<\h0386, \h0386, 1, \h03AC>>,
     <<\h0388, \h038A, 1, \h03AD>>, <<\h038C, \h038C, 1, \h03CC>>,
     <<\h038E, \h038F, 1, \h03CD>>, <<\h0391, \h03A1, 1, \h03B1>>,
     <<\h03A3, \h03AB, 1, \h03C3>>, <<\h03CF, \h03CF, 1, \h03D7>>,
     <<\h03D8, \h03EE, 2, \h03D9>>, <<\h03F4, \h03F4, 1, \h03B8>>,
     <<\h03F7, \h03F7, 1, \h03F8>>, <<\h03F9, \h03F9, 1, \h03F2>>,
     <<\h03FA, \h03FA, 1, \h03FB>>, <<\h03FD, \h03FF, 1, \h037B>>,
     <<\h0400, \h040F, 1, \h0450>>, <<\h0410, \h042F, 1, \h0430>>,
     <<\h0460, \h0480, 2, \h0461>>, <<\h048A, \h04BE, 2, \h048B>>,
     <<\h04C0, \h04C0, 1, \h04CF>>, <<\h04C1, \h04CD, 2, \h04C2>>,
     <<\h04D0, \h052E, 2, \h04D1>>, <<\h0531, \h0556, 1, \h0561>>,
     <<\h10A0, \h10C5, 1, \h2D00>>, <<\h10C7, \h10C7, 1, \h2D27>>,
     <<\h10CD, \h10CD, 1, \h2D2D>>, <<\h13A0, \h13EF, 1, \hAB70>>,
     <<\h13F0, \h13F5, 1, \h13F8>>, <<\h1C89, \h1C89, 1, \h1C8A>>,
     <<\h1C90, \h1CBA, 1, \h10D0>>, <<\h1CBD, \h1CBF, 1, \h10FD>>,
     <<\h1E00, \h1E94, 2, \h1E01>>, <<\h1EA0, \h1EFE, 2, \h1EA1>>,
     <<\h1F08, \h1F0F, 1, \h1F00>>, <<\h1F18, \h1F1D, 1, \h1F10>>,
     <<\h1F28, \h1F2F, 1, \h1F20>>, <<\h1F38, \h1F3F, 1, \h1F30>>,
     <<\h1F48, \h1F4D, 1, \h1F40>>, <<\h1F59, \h1F5F, 2, \h1F51>>,
     <<\h1F68, \h1F6F, 1, \h1F60>>, <<\h1F88, \h1F8F, 1, \h1F80>>,
     <<\h1F98, \h1F9F, 1, \h1F90>>, <<\h1FA8, \h1FAF, 1, \h1FA0>>,
     <<\h1FB8, \h1FB9, 1, \h1FB0>>, <<\h1FBA, \h1FBB, 1, \h1F70>>,
     <<\h1FBC, \h1FBC, 1, \h1FB3>>, <<\h1FC8, \h1FCB, 1, \h1F72>>,
     <<\h1FCC, \h1FCC, 1, \h1FC3>>, <<\h1FD8, \h1FD9, 1, \h1FD0>>,
     <<\h1FDA, \h1FDB, 1, \h1F76>>, <<\h1FE8, \h1FE9, 1, \h1FE0>>,
     <<\h1FEA, \h1FEB, 1, \h1F7A>>, <<\h1FEC, \h1FEC, 1, \h1FE5>>,
     <<\h1FF8, \h1FF9, 1, \h1F78>>, <<\h1FFA, \h1FFB, 1, \h1F7C>>,
     <<\h1FFC, \h1FFC, 1, \h1FF3>>, <<\h2126, \h2126, 1, \h03C9>>,
     <<\h2132, \h2132, 1, \h214E>>, <<\h2160, \h216F, 1, \h2170>>,
     <<\h2183, \h2183, 1, \h2184>>, <<\h24B6, \h24CF, 1, \h24D0>>,
     <<\h2C00, \h2C2F, 1, \h2C30>>, <<\h2C60, \h2C60, 1, \h2C61>>,
     <<\h2C62, \h2C62, 1, \h026B>>, <<\h2C63, \h2C63, 1, \h1D7D>>,
     <<\h2C64, \h2C64, 1, \h027D>>, <<\h2C67, \h2C6B, 2, \h2C68>>,
     <<\h2C6D, \h2C6D, 1, \h0251>>, <<\h2C6E, \h2C6E, 1, \h0271>>,
     <<\h2C6F, \h2C6F, 1, \h0250>>, <<\h2C70, \h2C70, 1, \h0252>>,
     <<\h2C72, \h2C72, 1, \h2C73>>, <<\h2C75, \h2C75, 1, \h2C76>>,
     <<\h2C7E, \h2C7F, 1, \h023F>>, <<\h2C80, \h2CE2, 2, \h2C81>>,
     <<\h2CEB, \h2CED, 2, \h2CEC>>, <<\h2CF2, \h2CF2, 1, \h2CF3>>,
     <<\hA640, \hA66C, 2, \hA641>>, <<\hA680, \hA69A, 2, \hA681>>,
     <<\hA722, \hA72E, 2, \hA723>>, <<\hA732, \hA76E, 2, \hA733>>,
     <<\hA779, \hA77B, 2, \hA77A>>, <<\hA77D, \hA77D, 1, \h1D79>>,
     <<\hA77E, \hA786, 2, \hA77F>>, <<\hA78B, \hA78B, 1, \hA78C>>,
     <<\hA78D, \hA78D, 1, \h0265>>, <<\hA790, \hA792, 2, \hA791>>,
     <<\hA796, \hA7A8, 2, \hA797>>, <<\hA7AA, \hA7AA, 1, \h0266>>,
     <<\hA7AB, \hA7AB, 1, \h025C>>, <<\hA7AC, \hA7AC, 1, \h0261>>,
     <<\hA7AD, \hA7AD, 1, \h026C>>, <<\hA7AE, \hA7AE, 1, \h026A>>,
     <<\hA7B0, \hA7B0, 1, \h029E>>, <<\hA7B1, \hA7B1, 1, \h0287>>,
     <<\hA7B2, \hA7B2, 1, \h029D>>, <<\hA7B3, \hA7B3, 1, \hAB53>>,
     <<\hA7B4, \hA7C2, 2, \hA7B5>>, <<\hA7C4, \hA7C4, 1, \hA794>>,
     <<\hA7C5, \hA7C5, 1, \h0282>>, <<\hA7C6, \hA7C6, 1, \h1D8E>>,
     <<\hA7C7, \hA7C9, 2, \hA7C8>>, <<\hA7CB, \hA7CB, 1, \h0264>>,
     <<\hA7CC, \hA7DA, 2, \hA7CD>>, <<\hA7DC, \hA7DC, 1, \h019B>>,
     <<\hA7F5, \hA7F5, 1, \hA7F6>>, <<\hFF21, \hFF3A, 1, \hFF41>>,
     <<\h10400, \h10427, 1, \h10428>>, <<\h104B0, \h104D3, 1, \h104D8>>,
     <<\h10570, \h1057A, 1, \h10597>>, <<\h1057C, \h1058A, 1, \h105A3>>,
     <<\h1058C, \h10592, 1, \h105B3>>, <<\h10594, \h10595, 1, \h105BB>>,
     <<\h10C80, \h10CB2, 1, \h10CC0>>, <<\h10D50, \h10D65, 1, \h10D70>>,
     <<\h118A0, \h118BF, 1, \h118C0>>, <<\h16E40, \h16E5F, 1, \h16E60>>,
     <<\h16EA0, \h16EB8, 1, \h16EBB>>, <<\h1E900, \h1E921, 1, \h1E922>>}
LowerPairs ==
    LowerLatin \cup
    UNION {{<<Tok(n), Tok(n + r[4] - r[1])>> :
              n \in {m \in r[1]..r[2] : (m - r[1]) % r[3] = 0}} : r \in LowerRuns}
LowerOf ==
    [c \in {pr[1] : pr \in LowerPairs} |-> (CHOOSE pr \in LowerPairs : pr[1] = c)[2]]

\* c.toLowerCase() of one character: a text of one character, and of two for
\* U+0130, which gives i and U+0307; a character without a lower case gives
\* itself
LowerChar(c) ==
    IF c = "U+0130" THEN <<"i", "U+0307">>
    ELSE IF c \in DOMAIN LowerOf THEN <<LowerOf[c]>>
    ELSE <<c>>

\* the cased letters that are not case-ignorable, and the case-ignorable
\* characters (Cased and Case_Ignorable of the Unicode character database)
CasedRanges ==
    {<<\h0100, \h01BA>>, <<\h01BC, \h01BF>>, <<\h01C4, \h0293>>,
     <<\h0296, \h02AF>>, <<\h0370, \h0373>>, <<\h0376, \h0377>>,
     <<\h037B, \h037D>>, <<\h037F, \h037F>>, <<\h0386, \h0386>>,
     <<\h0388, \h038A>>, <<\h038C, \h038C>>, <<\h038E, \h03A1>>,
     <<\h03A3, \h03F5>>, <<\h03F7, \h0481>>, <<\h048A, \h052F>>,
     <<\h0531, \h0556>>, <<\h0560, \h0588>>, <<\h10A0, \h10C5>>,
     <<\h10C7, \h10C7>>, <<\h10CD, \h10CD>>, <<\h10D0, \h10FA>>,
     <<\h10FD, \h10FF>>, <<\h13A0, \h13F5>>, <<\h13F8, \h13FD>>,
     <<\h1C80, \h1C8A>>, <<\h1C90, \h1CBA>>, <<\h1CBD, \h1CBF>>,
     <<\h1D00, \h1D2B>>, <<\h1D6B, \h1D77>>, <<\h1D79, \h1D9A>>,
     <<\h1E00, \h1F15>>, <<\h1F18, \h1F1D>>, <<\h1F20, \h1F45>>,
     <<\h1F48, \h1F4D>>, <<\h1F50, \h1F57>>, <<\h1F59, \h1F59>>,
     <<\h1F5B, \h1F5B>>, <<\h1F5D, \h1F5D>>, <<\h1F5F, \h1F7D>>,
     <<\h1F80, \h1FB4>>, <<\h1FB6, \h1FBC>>, <<\h1FBE, \h1FBE>>,
     <<\h1FC2, \h1FC4>>, <<\h1FC6, \h1FCC>>, <<\h1FD0, \h1FD3>>,
     <<\h1FD6, \h1FDB>>, <<\h1FE0, \h1FEC>>, <<\h1FF2, \h1FF4>>,
     <<\h1FF6, \h1FFC>>, <<\h2102, \h2102>>, <<\h2107, \h2107>>,
     <<\h210A, \h2113>>, <<\h2115, \h2115>>, <<\h2119, \h211D>>,
     <<\h2124, \h2124>>, <<\h2126, \h2126>>, <<\h2128, \h2128>>,
     <<\h212A, \h212D>>, <<\h212F, \h2134>>, <<\h2139, \h2139>>,
     <<\h213C, \h213F>>, <<\h2145, \h2149>>, <<\h214E, \h214E>>,
     <<\h2160, \h217F>>, <<\h2183, \h2184>>, <<\h24B6, \h24E9>>,
     <<\h2C00, \h2C7B>>, <<\h2C7E, \h2CE4>>, <<\h2CEB, \h2CEE>>,
     <<\h2CF2, \h2CF3>>, <<\h2D00, \h2D25>>, <<\h2D27, \h2D27>>,
     <<\h2D2D, \h2D2D>>, <<\hA640, \hA66D>>, <<\hA680, \hA69B>>,
     <<\hA722, \hA76F>>, <<\hA771, \hA787>>, <<\hA78B, \hA78E>>,
     <<\hA790, \hA7DC>>, <<\hA7F5, \hA7F6>>, <<\hA7FA, \hA7FA>>,
     <<\hAB30, \hAB5A>>, <<\hAB60, \hAB68>>, <<\hAB70, \hABBF>>,
     <<\hFB00, \hFB06>>, <<\hFB13, \hFB17>>, <<\hFF21, \hFF3A>>,
     <<\hFF41, \hFF5A>>, <<\h10400, \h1044F>>, <<\h104B0, \h104D3>>,
     <<\h104D8, \h104FB>>, <<\h10570, \h1057A>>, <<\h1057C, \h1058A>>,
     <<\h1058C, \h10592>>, <<\h10594, \h10595>>, <<\h10597, \h105A1>>,
     <<\h105A3, \h105B1>>, <<\h105B3, \h105B9>>, <<\h105BB, \h105BC>>,
     <<\h10C80, \h10CB2>>, <<\h10CC0, \h10CF2>>, <<\h10D50, \h10D65>>,
     <<\h10D70, \h10D85>>, <<\h118A0, \h118DF>>, <<\h16E40, \h16E7F>>,
     <<\h16EA0, \h16EB8>>, <<\h16EBB, \h16ED3>>, <<\h1D400, \h1D454>>,
     <<\h1D456, \h1D49C>>, <<\h1D49E, \h1D49F>>, <<\h1D4A2, \h1D4A2>>,
     <<\h1D4A5, \h1D4A6>>, <<\h1D4A9, \h1D4AC>>, <<\h1D4AE, \h1D4B9>>,
     <<\h1D4BB, \h1D4BB>>, <<\h1D4BD, \h1D4C3>>, <<\h1D4C5, \h1D505>>,
     <<\h1D507, \h1D50A>>, <<\h1D50D, \h1D514>>, <<\h1D516, \h1D51C>>,
     <<\h1D51E, \h1D539>>, <<\h1D53B, \h1D53E>>, <<\h1D540, \h1D544>>,
     <<\h1D546, \h1D546>>, <<\h1D54A, \h1D550>>, <<\h1D552, \h1D6A5>>,
     <<\h1D6A8, \h1D6C0>>, <<\h1D6C2, \h1D6DA>>, <<\h1D6DC, \h1D6FA>>,
     <<\h1D6FC, \h1D714>>, <<\h1D716, \h1D734>>, <<\h1D736, \h1D74E>>,
     <<\h1D750, \h1D76E>>, <<\h1D770, \h1D788>>, <<\h1D78A, \h1D7A8>>,
     <<\h1D7AA, \h1D7C2>>, <<\h1D7C4, \h1D7CB>>, <<\h1DF00, \h1DF09>>,
     <<\h1DF0B, \h1DF1E>>, <<\h1DF25, \h1DF2A>>, <<\h1E900, \h1E943>>,
     <<\h1F130, \h1F149>>, <<\h1F150, \h1F169>>, <<\h1F170, \h1F189>>}
CasedChars ==
    {"A", "B", "C", "D", "E", "F", "G", "H", "I", "J", "K", "L", "M", "N",
     "O", "P", "Q", "R", "S", "T", "U", "V", "W", "X", "Y", "Z", "a", "b",
     "c", "d", "e", "f", "g", "h", "i", "j", "k", "l", "m", "n", "o", "p",
     "q", "r", "s", "t", "u", "v", "w", "x", "y", "z", "ª", "µ", "º", "À",
     "Á", "Â", "Ã", "Ä", "Å", "Æ", "Ç", "È", "É", "Ê", "Ë", "Ì", "Í", "Î",
     "Ï", "Ð", "Ñ", "Ò", "Ó", "Ô", "Õ", "Ö", "Ø", "Ù", "Ú", "Û", "Ü", "Ý",
     "Þ", "ß", "à", "á", "â", "ã", "ä", "å", "æ", "ç", "è", "é", "ê", "ë",
     "ì", "í", "î", "ï", "ð", "ñ", "ò", "ó", "ô", "õ", "ö", "ø", "ù", "ú",
     "û", "ü", "ý", "þ", "ÿ"} \cup
    {Tok(n) : n \in UNION {r[1]..r[2] : r \in CasedRanges}}
CaseIgnorableRanges ==
    {<<\h02B0, \h036F>>, <<\h0374, \h0375>>, <<\h037A, \h037A>>,
     <<\h0384, \h0385>>, <<\h0387, \h0387>>, <<\h0483, \h0489>>,
     <<\h0559, \h0559>>, <<\h055F, \h055F>>, <<\h0591, \h05BD>>,
     <<\h05BF, \h05BF>>, <<\h05C1, \h05C2>>, <<\h05C4, \h05C5>>,
     <<\h05C7, \h05C7>>, <<\h05F4, \h05F4>>, <<\h0600, \h0605>>,
     <<\h0610, \h061A>>, <<\h061C, \h061C>>, <<\h0640, \h0640>>,
     <<\h064B, \h065F>>, <<\h0670, \h0670>>, <<\h06D6, \h06DD>>,
     <<\h06DF, \h06E8>>, <<\h06EA, \h06ED>>, <<\h070F, \h070F>>,
     <<\h0711, \h0711>>, <<\h0730, \h074A>>, <<\h07A6, \h07B0>>,
     <<\h07EB, \h07F5>>, <<\h07FA, \h07FA>>, <<\h07FD, \h07FD>>,
     <<\h0816, \h082D>>, <<\h0859, \h085B>>, <<\h0888, \h0888>>,
     <<\h0890, \h0891>>, <<\h0897, \h089F>>, <<\h08C9, \h0902>>,
     <<\h093A, \h093A>>, <<\h093C, \h093C>>, <<\h0941, \h0948>>,
     <<\h094D, \h094D>>, <<\h0951, \h0957>>, <<\h0962, \h0963>>,
     <<\h0971, \h0971>>, <<\h0981, \h0981>>, <<\h09BC, \h09BC>>,
     <<\h09C1, \h09C4>>, <<\h09CD, \h09CD>>, <<\h09E2, \h09E3>>,
     <<\h09FE, \h09FE>>, <<\h0A01, \h0A02>>, <<\h0A3C, \h0A3C>>,
     <<\h0A41, \h0A42>>, <<\h0A47, \h0A48>>, <<\h0A4B, \h0A4D>>,
     <<\h0A51, \h0A51>>, <<\h0A70, \h0A71>>, <<\h0A75, \h0A75>>,
     <<\h0A81, \h0A82>>, <<\h0ABC, \h0ABC>>, <<\h0AC1, \h0AC5>>,
     <<\h0AC7, \h0AC8>>, <<\h0ACD, \h0ACD>>, <<\h0AE2, \h0AE3>>,
     <<\h0AFA, \h0AFF>>, <<\h0B01, \h0B01>>, <<\h0B3C, \h0B3C>>,
     <<\h0B3F, \h0B3F>>, <<\h0B41, \h0B44>>, <<\h0B4D, \h0B4D>>,
     <<\h0B55, \h0B56>>, <<\h0B62, \h0B63>>, <<\h0B82, \h0B82>>,
     <<\h0BC0, \h0BC0>>, <<\h0BCD, \h0BCD>>, <<\h0C00, \h0C00>>,
     <<\h0C04, \h0C04>>, <<\h0C3C, \h0C3C>>, <<\h0C3E, \h0C40>>,
     <<\h0C46, \h0C48>>, <<\h0C4A, \h0C4D>>, <<\h0C55, \h0C56>>,
     <<\h0C62, \h0C63>>, <<\h0C81, \h0C81>>, <<\h0CBC, \h0CBC>>,
     <<\h0CBF, \h0CBF>>, <<\h0CC6, \h0CC6>>, <<\h0CCC, \h0CCD>>,
     <<\h0CE2, \h0CE3>>, <<\h0D00, \h0D01>>, <<\h0D3B, \h0D3C>>,
     <<\h0D41, \h0D44>>, <<\h0D4D, \h0D4D>>, <<\h0D62, \h0D63>>,
     <<\h0D81, \h0D81>>, <<\h0DCA, \h0DCA>>, <<\h0DD2, \h0DD4>>,
     <<\h0DD6, \h0DD6>>, <<\h0E31, \h0E31>>, <<\h0E34, \h0E3A>>,
     <<\h0E46, \h0E4E>>, <<\h0EB1, \h0EB1>>, <<\h0EB4, \h0EBC>>,
     <<\h0EC6, \h0EC6>>, <<\h0EC8, \h0ECE>>, <<\h0F18, \h0F19>>,
     <<\h0F35, \h0F35>>, <<\h0F37, \h0F37>>, <<\h0F39, \h0F39>>,
     <<\h0F71, \h0F7E>>, <<\h0F80, \h0F84>>, <<\h0F86, \h0F87>>,
     <<\h0F8D, \h0F97>>, <<\h0F99, \h0FBC>>, <<\h0FC6, \h0FC6>>,
     <<\h102D, \h1030>>, <<\h1032, \h1037>>, <<\h1039, \h103A>>,
     <<\h103D, \h103E>>, <<\h1058, \h1059>>, <<\h105E, \h1060>>,
     <<\h1071, \h1074>>, <<\h1082, \h1082>>, <<\h1085, \h1086>>,
     <<\h108D, \h108D>>, <<\h109D, \h109D>>, <<\h10FC, \h10FC>>,
     <<\h135D, \h135F>>, <<\h1712, \h1714>>, <<\h1732, \h1733>>,
     <<\h1752, \h1753>>, <<\h1772, \h1773>>, <<\h17B4, \h17B5>>,
     <<\h17B7, \h17BD>>, <<\h17C6, \h17C6>>, <<\h17C9, \h17D3>>,
     <<\h17D7, \h17D7>>, <<\h17DD, \h17DD>>, <<\h180B, \h180F>>,
     <<\h1843, \h1843>>, <<\h1885, \h1886>>, <<\h18A9, \h18A9>>,
     <<\h1920, \h1922>>, <<\h1927, \h1928>>, <<\h1932, \h1932>>,
     <<\h1939, \h193B>>, <<\h1A17, \h1A18>>, <<\h1A1B, \h1A1B>>,
     <<\h1A56, \h1A56>>, <<\h1A58, \h1A5E>>, <<\h1A60, \h1A60>>,
     <<\h1A62, \h1A62>>, <<\h1A65, \h1A6C>>, <<\h1A73, \h1A7C>>,
     <<\h1A7F, \h1A7F>>, <<\h1AA7, \h1AA7>>, <<\h1AB0, \h1ADD>>,
     <<\h1AE0, \h1AEB>>, <<\h1B00, \h1B03>>, <<\h1B34, \h1B34>>,
     <<\h1B36, \h1B3A>>, <<\h1B3C, \h1B3C>>, <<\h1B42, \h1B42>>,
     <<\h1B6B, \h1B73>>, <<\h1B80, \h1B81>>, <<\h1BA2, \h1BA5>>,
     <<\h1BA8, \h1BA9>>, <<\h1BAB, \h1BAD>>, <<\h1BE6, \h1BE6>>,
     <<\h1BE8, \h1BE9>>, <<\h1BED, \h1BED>>, <<\h1BEF, \h1BF1>>,
     <<\h1C2C, \h1C33>>, <<\h1C36, \h1C37>>, <<\h1C78, \h1C7D>>,
     <<\h1CD0, \h1CD2>>, <<\h1CD4, \h1CE0>>, <<\h1CE2, \h1CE8>>,
     <<\h1CED, \h1CED>>, <<\h1CF4, \h1CF4>>, <<\h1CF8, \h1CF9>>,
     <<\h1D2C, \h1D6A>>, <<\h1D78, \h1D78>>, <<\h1D9B, \h1DFF>>,
     <<\h1FBD, \h1FBD>>, <<\h1FBF, \h1FC1>>, <<\h1FCD, \h1FCF>>,
     <<\h1FDD, \h1FDF>>, <<\h1FED, \h1FEF>>, <<\h1FFD, \h1FFE>>,
     <<\h200B, \h200F>>, <<\h2018, \h2019>>, <<\h2024, \h2024>>,
     <<\h2027, \h2027>>, <<\h202A, \h202E>>, <<\h2060, \h2064>>,
     <<\h2066, \h206F>>, <<\h2071, \h2071>>, <<\h207F, \h207F>>,
     <<\h2090, \h209C>>, <<\h20D0, \h20F0>>, <<\h2C7C, \h2C7D>>,
     <<\h2CEF, \h2CF1>>, <<\h2D6F, \h2D6F>>, <<\h2D7F, \h2D7F>>,
     <<\h2DE0, \h2DFF>>, <<\h2E2F, \h2E2F>>, <<\h3005, \h3005>>,
     <<\h302A, \h302D>>, <<\h3031, \h3035>>, <<\h303B, \h303B>>,
     <<\h3099, \h309E>>, <<\h30FC, \h30FE>>, <<\hA015, \hA015>>,
     <<\hA4F8, \hA4FD>>, <<\hA60C, \hA60C>>, <<\hA66F, \hA672>>,
     <<\hA674, \hA67D>>, <<\hA67F, \hA67F>>, <<\hA69C, \hA69F>>,
     <<\hA6F0, \hA6F1>>, <<\hA700, \hA721>>, <<\hA770, \hA770>>,
     <<\hA788, \hA78A>>, <<\hA7F1, \hA7F4>>, <<\hA7F8, \hA7F9>>,
     <<\hA802, \hA802>>, <<\hA806, \hA806>>, <<\hA80B, \hA80B>>,
     <<\hA825, \hA826>>, <<\hA82C, \hA82C>>, <<\hA8C4, \hA8C5>>,
     <<\hA8E0, \hA8F1>>, <<\hA8FF, \hA8FF>>, <<\hA926, \hA92D>>,
     <<\hA947, \hA951>>, <<\hA980, \hA982>>, <<\hA9B3, \hA9B3>>,
     <<\hA9B6, \hA9B9>>, <<\hA9BC, \hA9BD>>, <<\hA9CF, \hA9CF>>,
     <<\hA9E5, \hA9E6>>, <<\hAA29, \hAA2E>>, <<\hAA31, \hAA32>>,
     <<\hAA35, \hAA36>>, <<\hAA43, \hAA43>>, <<\hAA4C, \hAA4C>>,
     <<\hAA70, \hAA70>>, <<\hAA7C, \hAA7C>>, <<\hAAB0, \hAAB0>>,
     <<\hAAB2, \hAAB4>>, <<\hAAB7, \hAAB8>>, <<\hAABE, \hAABF>>,
     <<\hAAC1, \hAAC1>>, <<\hAADD, \hAADD>>, <<\hAAEC, \hAAED>>,
     <<\hAAF3, \hAAF4>>, <<\hAAF6, \hAAF6>>, <<\hAB5B, \hAB5F>>,
     <<\hAB69, \hAB6B>>, <<\hABE5, \hABE5>>, <<\hABE8, \hABE8>>,
     <<\hABED, \hABED>>, <<\hFB1E, \hFB1E>>, <<\hFBB2, \hFBC2>>,
     <<\hFE00, \hFE0F>>, <<\hFE13, \hFE13>>, <<\hFE20, \hFE2F>>,
     <<\hFE52, \hFE52>>, <<\hFE55, \hFE55>>, <<\hFEFF, \hFEFF>>,
     <<\hFF07, \hFF07>>, <<\hFF0E, \hFF0E>>, <<\hFF1A, \hFF1A>>,
     <<\hFF3E, \hFF3E>>, <<\hFF40, \hFF40>>, <<\hFF70, \hFF70>>,
     <<\hFF9E, \hFF9F>>, <<\hFFE3, \hFFE3>>, <<\hFFF9, \hFFFB>>,
     <<\h101FD, \h101FD>>, <<\h102E0, \h102E0>>, <<\h10376, \h1037A>>,
     <<\h10780, \h10785>>, <<\h10787, \h107B0>>, <<\h107B2, \h107BA>>,
     <<\h10A01, \h10A03>>, <<\h10A05, \h10A06>>, <<\h10A0C, \h10A0F>>,
     <<\h10A38, \h10A3A>>, <<\h10A3F, \h10A3F>>, <<\h10AE5, \h10AE6>>,
     <<\h10D24, \h10D27>>, <<\h10D4E, \h10D4E>>, <<\h10D69, \h10D6D>>,
     <<\h10D6F, \h10D6F>>, <<\h10EAB, \h10EAC>>, <<\h10EC5, \h10EC5>>,
     <<\h10EFA, \h10EFF>>, <<\h10F46, \h10F50>>, <<\h10F82, \h10F85>>,
     <<\h11001, \h11001>>, <<\h11038, \h11046>>, <<\h11070, \h11070>>,
     <<\h11073, \h11074>>, <<\h1107F, \h11081>>, <<\h110B3, \h110B6>>,
     <<\h110B9, \h110BA>>, <<\h110BD, \h110BD>>, <<\h110C2, \h110C2>>,
     <<\h110CD, \h110CD>>, <<\h11100, \h11102>>, <<\h11127, \h1112B>>,
     <<\h1112D, \h11134>>, <<\h11173, \h11173>>, <<\h11180, \h11181>>,
     <<\h111B6, \h111BE>>, <<\h111C9, \h111CC>>, <<\h111CF, \h111CF>>,
     <<\h1122F, \h11231>>, <<\h11234, \h11234>>, <<\h11236, \h11237>>,
     <<\h1123E, \h1123E>>, <<\h11241, \h11241>>, <<\h112DF, \h112DF>>,
     <<\h112E3, \h112EA>>, <<\h11300, \h11301>>, <<\h1133B, \h1133C>>,
     <<\h11340, \h11340>>, <<\h11366, \h1136C>>, <<\h11370, \h11374>>,
     <<\h113BB, \h113C0>>, <<\h113CE, \h113CE>>, <<\h113D0, \h113D0>>,
     <<\h113D2, \h113D2>>, <<\h113E1, \h113E2>>, <<\h11438, \h1143F>>,
     <<\h11442, \h11444>>, <<\h11446, \h11446>>, <<\h1145E, \h1145E>>,
     <<\h114B3, \h114B8>>, <<\h114BA, \h114BA>>, <<\h114BF, \h114C0>>,
     <<\h114C2, \h114C3>>, <<\h115B2, \h115B5>>, <<\h115BC, \h115BD>>,
     <<\h115BF, \h115C0>>, <<\h115DC, \h115DD>>, <<\h11633, \h1163A>>,
     <<\h1163D, \h1163D>>, <<\h1163F, \h11640>>, <<\h116AB, \h116AB>>,
     <<\h116AD, \h116AD>>, <<\h116B0, \h116B5>>, <<\h116B7, \h116B7>>,
     <<\h1171D, \h1171D>>, <<\h1171F, \h1171F>>, <<\h11722, \h11725>>,
     <<\h11727, \h1172B>>, <<\h1182F, \h11837>>, <<\h11839, \h1183A>>,
     <<\h1193B, \h1193C>>, <<\h1193E, \h1193E>>, <<\h11943, \h11943>>,
     <<\h119D4, \h119D7>>, <<\h119DA, \h119DB>>, <<\h119E0, \h119E0>>,
     <<\h11A01, \h11A0A>>, <<\h11A33, \h11A38>>, <<\h11A3B, \h11A3E>>,
     <<\h11A47, \h11A47>>, <<\h11A51, \h11A56>>, <<\h11A59, \h11A5B>>,
     <<\h11A8A, \h11A96>>, <<\h11A98, \h11A99>>, <<\h11B60, \h11B60>>,
     <<\h11B62, \h11B64>>, <<\h11B66, \h11B66>>, <<\h11C30, \h11C36>>,
     <<\h11C38, \h11C3D>>, <<\h11C3F, \h11C3F>>, <<\h11C92, \h11CA7>>,
     <<\h11CAA, \h11CB0>>, <<\h11CB2, \h11CB3>>, <<\h11CB5, \h11CB6>>,
     <<\h11D31, \h11D36>>, <<\h11D3A, \h11D3A>>, <<\h11D3C, \h11D3D>>,
     <<\h11D3F, \h11D45>>, <<\h11D47, \h11D47>>, <<\h11D90, \h11D91>>,
     <<\h11D95, \h11D95>>, <<\h11D97, \h11D97>>, <<\h11DD9, \h11DD9>>,
     <<\h11EF3, \h11EF4>>, <<\h11F00, \h11F01>>, <<\h11F36, \h11F3A>>,
     <<\h11F40, \h11F40>>, <<\h11F42, \h11F42>>, <<\h11F5A, \h11F5A>>,
     <<\h13430, \h13440>>, <<\h13447, \h13455>>, <<\h1611E, \h16129>>,
     <<\h1612D, \h1612F>>, <<\h16AF0, \h16AF4>>, <<\h16B30, \h16B36>>,
     <<\h16B40, \h16B43>>, <<\h16D40, \h16D42>>, <<\h16D6B, \h16D6C>>,
     <<\h16F4F, \h16F4F>>, <<\h16F8F, \h16F9F>>, <<\h16FE0, \h16FE1>>,
     <<\h16FE3, \h16FE4>>, <<\h16FF2, \h16FF3>>, <<\h1AFF0, \h1AFF3>>,
     <<\h1AFF5, \h1AFFB>>, <<\h1AFFD, \h1AFFE>>, <<\h1BC9D, \h1BC9E>>,
     <<\h1BCA0, \h1BCA3>>, <<\h1CF00, \h1CF2D>>, <<\h1CF30, \h1CF46>>,
     <<\h1D167, \h1D169>>, <<\h1D173, \h1D182>>, <<\h1D185, \h1D18B>>,
     <<\h1D1AA, \h1D1AD>>, <<\h1D242, \h1D244>>, <<\h1DA00, \h1DA36>>,
     <<\h1DA3B, \h1DA6C>>, <<\h1DA75, \h1DA75>>, <<\h1DA84, \h1DA84>>,
     <<\h1DA9B, \h1DA9F>>, <<\h1DAA1, \h1DAAF>>, <<\h1E000, \h1E006>>,
     <<\h1E008, \h1E018>>, <<\h1E01B, \h1E021>>, <<\h1E023, \h1E024>>,
     <<\h1E026, \h1E02A>>, <<\h1E030, \h1E06D>>, <<\h1E08F, \h1E08F>>,
     <<\h1E130, \h1E13D>>, <<\h1E2AE, \h1E2AE>>, <<\h1E2EC, \h1E2EF>>,
     <<\h1E4EB, \h1E4EF>>, <<\h1E5EE, \h1E5EF>>, <<\h1E6E3, \h1E6E3>>,
     <<\h1E6E6, \h1E6E6>>, <<\h1E6EE, \h1E6EF>>, <<\h1E6F5, \h1E6F5>>,
     <<\h1E6FF, \h1E6FF>>, <<\h1E8D0, \h1E8D6>>, <<\h1E944, \h1E94B>>,
     <<\h1F3FB, \h1F3FF>>, <<\hE0001, \hE0001>>, <<\hE0020, \hE007F>>,
     <<\hE0100, \hE01EF>>}
CaseIgnorableChars ==
    {"'", ".", ":", "^", "¨", "¯", "´", "·", "¸", "U+0060", "U+00AD"} \cup
    {Tok(n) : n \in UNION {r[1]..r[2] : r \in CaseIgnorableRanges}}

\* the capital sigma s[i] ends a word (Final_Sigma): a cased letter comes
\* before it and none after it, case-ignorable characters skipped
FinalSigma(s, i) ==
    /\ \E j \in 1..(i - 1) :
         /\ s[j] \in CasedChars
         /\ \A k \in (j + 1)..(i - 1) : s[k] \in CaseIgnorableChars
    /\ ~\E j \in (i + 1)..Len(s) :
         /\ s[j] \in CasedChars
         /\ \A k \in (i + 1)..(j - 1) : s[k] \in CaseIgnorableChars

\* String.prototype.toLowerCase: every character by its lower case, the
\* capital sigma that ends a word by the final sigma U+03C2
RECURSIVE LowerFrom(_, _)
LowerFrom(s, i) ==
    IF i > Len(s) THEN <<>>
    ELSE (IF s[i] = "U+03A3" /\ FinalSigma(s, i) THEN <<"U+03C2">> ELSE LowerChar(s[i]))
         \o LowerFrom(s, i + 1)
ToLowerCase(s) == LowerFrom(s, 1)

\* String.prototype.trim
Trim(s) ==
    LET idx   == {i \in 1..Len(s) : ~IsSpace(s[i])}
        first == CHOOSE i \in idx : \A j \in idx : i <= j
        last  == CHOOSE i \in idx : \A j \in idx : j <= i
    IN  IF idx = {} THEN <<>> ELSE SubSeq(s, first, last)

\* String.prototype.includes
Includes(s, k) ==
    \E i \in 0..(Len(s) - Len(k)) : SubSeq(s, i + 1, i + Len(k)) = k

\* JavaScript truthiness of a string (undefined, null and "" are all <<>>)
Truthy(s) == s # <<>>

NoText == <<>>

\* const NEGATIVE_KEYWORDS
NEGATIVE_KEYWORDS ==
    { <<"n","o">>, <<"n","a","h","i">>, <<"n","a","h","i","n">>,
      <<"o","k">>, <<"o","k","a","y">>,
      <<"t","h","a","n","k","s">>,
      <<"t","h","a","n","k"," ","y","o","u">>,
      <<"n","o","t"," ","i","n","t","e","r","e","s","t","e","d">>,
      <<"l","a","t","e","r">> }

\* NEGATIVE_KEYWORDS.some(k => lower === k || lower.includes(k))
NegativeIntent(lower) ==
    \E k \in NEGATIVE_KEYWORDS : lower = k \/ Includes(lower, k)

\* The reset lexicon of the specification (section 4.2); the source has none.
RESET_KEYWORDS == { <<"r","e","s","e","t">> }
ResetIntent(text) ==
    \E k \in RESET_KEYWORDS : Includes(ToLowerCase(text), k)

\* The topic lexicon of the specification (section 4.2 and its example
\* scenario); the source has none.
TOPIC_KEYWORDS == { <<"v","r">> }
TopicIntent(text) ==
    \E k \in TOPIC_KEYWORDS : Includes(ToLowerCase(text), k)

\* The utterances the requests carry.
U_hello   == <<"h","e","l","l","o">>
U_Know    == <<"K","n","o","w">>
U_reset   == <<"R","e","s","e","t">>
U_resetNo == <<"r","e","s","e","t"," ","N","O">>
U_blank   == <<" ">>

U_vr      == <<"V","R">>

Utterances == {U_hello, U_Know, U_reset, U_resetNo, U_blank}

\* The canned texts.  A reply is a text of one token, the whole phrase.
PoliteClose == <<"Theek hai :)">>
LlmReply    == <<"llm reply">>


\* detectLanguage of the session variant: the script ranges [\u0A80-\u0AFF]
\* and [\u0900-\u097F], then the Hinglish words with the flag i.  Without the
\* flag u, i matches the letters a-z of a pattern with a-z and A-Z only.
GujaratiLetters   == {Tok(n) : n \in \h0A80..\h0AFF}
DevanagariLetters == {Tok(n) : n \in \h0900..\h097F}
HinglishWords ==
    { <<"h","a","i">>, <<"n","a","h","i">>, <<"k","y","a">>,
      <<"k","a">>, <<"k","i">>, <<"h","o">> }
AsciiCapitals ==
    {"A","B","C","D","E","F","G","H","I","J","K","L","M",
     "N","O","P","Q","R","S","T","U","V","W","X","Y","Z"}
FoldAscii(text) ==
    [i \in 1..Len(text) |->
        IF text[i] \in AsciiCapitals THEN LowerOf[text[i]] ELSE text[i]]

DetectLanguageLocal(text) ==
    IF \E i \in 1..Len(text) : text[i] \in GujaratiLetters THEN "gujarati"
    ELSE IF \E i \in 1..Len(text) : text[i] \in DevanagariLetters THEN "hindi"
    ELSE IF \E w \in HinglishWords : Includes(FoldAscii(text), w) THEN "hinglish"
    ELSE "english"

\* fallback(lang)
Fallback(lang) ==
    CASE lang = "hinglish" -> <<"Is topic pe abhi exact info available nahi hai :)">>
      [] lang = "hindi"    -> <<"Is vishay par abhi jaankari uplabdh nahi hai :)">>
      [] lang = "gujarati" -> <<"(gujarati) mahiti uplabdh nathi :)">>
      [] OTHER             -> <<"I don't have the right information on this yet :)">>

\* cleanUserName: name.replace(/[^\p{L}\p{N}\s]/gu, "").trim(); no name is null.
\* \p{L} and \p{N}: the letters and the numbers (General_Category L* and N*)
NameRanges ==
    {<<\h0100, \h02C1>>, <<\h02C6, \h02D1>>, <<\h02E0, \h02E4>>,
     <<\h02EC, \h02EC>>, <<\h02EE, \h02EE>>, <<\h0370, \h0374>>,
     <<\h0376, \h0377>>, <<\h037A, \h037D>>, <<\h037F, \h037F>>,
     <<\h0386, \h0386>>, <<\h0388, \h038A>>, <<\h038C, \h038C>>,
     <<\h038E, \h03A1>>, <<\h03A3, \h03F5>>, <<\h03F7, \h0481>>,
     <<\h048A, \h052F>>, <<\h0531, \h0556>>, <<\h0559, \h0559>>,
     <<\h0560, \h0588>>, <<\h05D0, \h05EA>>, <<\h05EF, \h05F2>>,
     <<\h0620, \h064A>>, <<\h0660, \h0669>>, <<\h066E, \h066F>>,
     <<\h0671, \h06D3>>, <<\h06D5, \h06D5>>, <<\h06E5, \h06E6>>,
     <<\h06EE, \h06FC>>, <<\h06FF, \h06FF>>, <<\h0710, \h0710>>,
     <<\h0712, \h072F>>, <<\h074D, \h07A5>>, <<\h07B1, \h07B1>>,
     <<\h07C0, \h07EA>>, <<\h07F4, \h07F5>>, <<\h07FA, \h07FA>>,
     <<\h0800, \h0815>>, <<\h081A, \h081A>>, <<\h0824, \h0824>>,
     <<\h0828, \h0828>>, <<\h0840, \h0858>>, <<\h0860, \h086A>>,
     <<\h0870, \h0887>>, <<\h0889, \h088F>>, <<\h08A0, \h08C9>>,
     <<\h0904, \h0939>>, <<\h093D, \h093D>>, <<\h0950, \h0950>>,
     <<\h0958, \h0961>>, <<\h0966, \h096F>>, <<\h0971, \h0980>>,
     <<\h0985, \h098C>>, <<\h098F, \h0990>>, <<\h0993, \h09A8>>,
     <<\h09AA, \h09B0>>, <<\h09B2, \h09B2>>, <<\h09B6, \h09B9>>,
     <<\h09BD, \h09BD>>, <<\h09CE, \h09CE>>, <<\h09DC, \h09DD>>,
     <<\h09DF, \h09E1>>, <<\h09E6, \h09F1>>, <<\h09F4, \h09F9>>,
     <<\h09FC, \h09FC>>, <<\h0A05, \h0A0A>>, <<\h0A0F, \h0A10>>,
     <<\h0A13, \h0A28>>, <<\h0A2A, \h0A30>>, <<\h0A32, \h0A33>>,
     <<\h0A35, \h0A36>>, <<\h0A38, \h0A39>>, <<\h0A59, \h0A5C>>,
     <<\h0A5E, \h0A5E>>, <<\h0A66, \h0A6F>>, <<\h0A72, \h0A74>>,
     <<\h0A85, \h0A8D>>, <<\h0A8F, \h0A91>>, <<\h0A93, \h0AA8>>,
     <<\h0AAA, \h0AB0>>, <<\h0AB2, \h0AB3>>, <<\h0AB5, \h0AB9>>,
     <<\h0ABD, \h0ABD>>, <<\h0AD0, \h0AD0>>, <<\h0AE0, \h0AE1>>,
     <<\h0AE6, \h0AEF>>, <<\h0AF9, \h0AF9>>, <<\h0B05, \h0B0C>>,
     <<\h0B0F, \h0B10>>, <<\h0B13, \h0B28>>, <<\h0B2A, \h0B30>>,
     <<\h0B32, \h0B33>>, <<\h0B35, \h0B39>>, <<\h0B3D, \h0B3D>>,
     <<\h0B5C, \h0B5D>>, <<\h0B5F, \h0B61>>, <<\h0B66, \h0B6F>>,
     <<\h0B71, \h0B77>>, <<\h0B83, \h0B83>>, <<\h0B85, \h0B8A>>,
     <<\h0B8E, \h0B90>>, <<\h0B92, \h0B95>>, <<\h0B99, \h0B9A>>,
     <<\h0B9C, \h0B9C>>, <<\h0B9E, \h0B9F>>, <<\h0BA3, \h0BA4>>,
     <<\h0BA8, \h0BAA>>, <<\h0BAE, \h0BB9>>, <<\h0BD0, \h0BD0>>,
     <<\h0BE6, \h0BF2>>, <<\h0C05, \h0C0C>>, <<\h0C0E, \h0C10>>,
     <<\h0C12, \h0C28>>, <<\h0C2A, \h0C39>>, <<\h0C3D, \h0C3D>>,
     <<\h0C58, \h0C5A>>, <<\h0C5C, \h0C5D>>, <<\h0C60, \h0C61>>,
     <<\h0C66, \h0C6F>>, <<\h0C78, \h0C7E>>, <<\h0C80, \h0C80>>,
     <<\h0C85, \h0C8C>>, <<\h0C8E, \h0C90>>, <<\h0C92, \h0CA8>>,
     <<\h0CAA, \h0CB3>>, <<\h0CB5, \h0CB9>>, <<\h0CBD, \h0CBD>>,
     <<\h0CDC, \h0CDE>>, <<\h0CE0, \h0CE1>>, <<\h0CE6, \h0CEF>>,
     <<\h0CF1, \h0CF2>>, <<\h0D04, \h0D0C>>, <<\h0D0E, \h0D10>>,
     <<\h0D12, \h0D3A>>, <<\h0D3D, \h0D3D>>, <<\h0D4E, \h0D4E>>,
     <<\h0D54, \h0D56>>, <<\h0D58, \h0D61>>, <<\h0D66, \h0D78>>,
     <<\h0D7A, \h0D7F>>, <<\h0D85, \h0D96>>, <<\h0D9A, \h0DB1>>,
     <<\h0DB3, \h0DBB>>, <<\h0DBD, \h0DBD>>, <<\h0DC0, \h0DC6>>,
     <<\h0DE6, \h0DEF>>, <<\h0E01, \h0E30>>, <<\h0E32, \h0E33>>,
     <<\h0E40, \h0E46>>, <<\h0E50, \h0E59>>, <<\h0E81, \h0E82>>,
     <<\h0E84, \h0E84>>, <<\h0E86, \h0E8A>>, <<\h0E8C, \h0EA3>>,
     <<\h0EA5, \h0EA5>>, <<\h0EA7, \h0EB0>>, <<\h0EB2, \h0EB3>>,
     <<\h0EBD, \h0EBD>>, <<\h0EC0, \h0EC4>>, <<\h0EC6, \h0EC6>>,
     <<\h0ED0, \h0ED9>>, <<\h0EDC, \h0EDF>>, <<\h0F00, \h0F00>>,
     <<\h0F20, \h0F33>>, <<\h0F40, \h0F47>>, <<\h0F49, \h0F6C>>,
     <<\h0F88, \h0F8C>>, <<\h1000, \h102A>>, <<\h103F, \h1049>>,
     <<\h1050, \h1055>>, <<\h105A, \h105D>>, <<\h1061, \h1061>>,
     <<\h1065, \h1066>>, <<\h106E, \h1070>>, <<\h1075, \h1081>>,
     <<\h108E, \h108E>>, <<\h1090, \h1099>>, <<\h10A0, \h10C5>>,
     <<\h10C7, \h10C7>>, <<\h10CD, \h10CD>>, <<\h10D0, \h10FA>>,
     <<\h10FC, \h1248>>, <<\h124A, \h124D>>, <<\h1250, \h1256>>,
     <<\h1258, \h1258>>, <<\h125A, \h125D>>, <<\h1260, \h1288>>,
     <<\h128A, \h128D>>, <<\h1290, \h12B0>>, <<\h12B2, \h12B5>>,
     <<\h12B8, \h12BE>>, <<\h12C0, \h12C0>>, <<\h12C2, \h12C5>>,
     <<\h12C8, \h12D6>>, <<\h12D8, \h1310>>, <<\h1312, \h1315>>,
     <<\h1318, \h135A>>, <<\h1369, \h137C>>, <<\h1380, \h138F>>,
     <<\h13A0, \h13F5>>, <<\h13F8, \h13FD>>, <<\h1401, \h166C>>,
     <<\h166F, \h167F>>, <<\h1681, \h169A>>, <<\h16A0, \h16EA>>,
     <<\h16EE, \h16F8>>, <<\h1700, \h1711>>, <<\h171F, \h1731>>,
     <<\h1740, \h1751>>, <<\h1760, \h176C>>, <<\h176E, \h1770>>,
     <<\h1780, \h17B3>>, <<\h17D7, \h17D7>>, <<\h17DC, \h17DC>>,
     <<\h17E0, \h17E9>>, <<\h17F0, \h17F9>>, <<\h1810, \h1819>>,
     <<\h1820, \h1878>>, <<\h1880, \h1884>>, <<\h1887, \h18A8>>,
     <<\h18AA, \h18AA>>, <<\h18B0, \h18F5>>, <<\h1900, \h191E>>,
     <<\h1946, \h196D>>, <<\h1970, \h1974>>, <<\h1980, \h19AB>>,
     <<\h19B0, \h19C9>>, <<\h19D0, \h19DA>>, <<\h1A00, \h1A16>>,
     <<\h1A20, \h1A54>>, <<\h1A80, \h1A89>>, <<\h1A90, \h1A99>>,
     <<\h1AA7, \h1AA7>>, <<\h1B05, \h1B33>>, <<\h1B45, \h1B4C>>,
     <<\h1B50, \h1B59>>, <<\h1B83, \h1BA0>>, <<\h1BAE, \h1BE5>>,
     <<\h1C00, \h1C23>>, <<\h1C40, \h1C49>>, <<\h1C4D, \h1C7D>>,
     <<\h1C80, \h1C8A>>, <<\h1C90, \h1CBA>>, <<\h1CBD, \h1CBF>>,
     <<\h1CE9, \h1CEC>>, <<\h1CEE, \h1CF3>>, <<\h1CF5, \h1CF6>>,
     <<\h1CFA, \h1CFA>>, <<\h1D00, \h1DBF>>, <<\h1E00, \h1F15>>,
     <<\h1F18, \h1F1D>>, <<\h1F20, \h1F45>>, <<\h1F48, \h1F4D>>,
     <<\h1F50, \h1F57>>, <<\h1F59, \h1F59>>, <<\h1F5B, \h1F5B>>,
     <<\h1F5D, \h1F5D>>, <<\h1F5F, \h1F7D>>, <<\h1F80, \h1FB4>>,
     <<\h1FB6, \h1FBC>>, <<\h1FBE, \h1FBE>>, <<\h1FC2, \h1FC4>>,
     <<\h1FC6, \h1FCC>>, <<\h1FD0, \h1FD3>>, <<\h1FD6, \h1FDB>>,
     <<\h1FE0, \h1FEC>>, <<\h1FF2, \h1FF4>>, <<\h1FF6, \h1FFC>>,
     <<\h2070, \h2071>>, <<\h2074, \h2079>>, <<\h207F, \h2089>>,
     <<\h2090, \h209C>>, <<\h2102, \h2102>>, <<\h2107, \h2107>>,
     <<\h210A, \h2113>>, <<\h2115, \h2115>>, <<\h2119, \h211D>>,
     <<\h2124, \h2124>>, <<\h2126, \h2126>>, <<\h2128, \h2128>>,
     <<\h212A, \h212D>>, <<\h212F, \h2139>>, <<\h213C, \h213F>>,
     <<\h2145, \h2149>>, <<\h214E, \h214E>>, <<\h2150, \h2189>>,
     <<\h2460, \h249B>>, <<\h24EA, \h24FF>>, <<\h2776, \h2793>>,
     <<\h2C00, \h2CE4>>, <<\h2CEB, \h2CEE>>, <<\h2CF2, \h2CF3>>,
     <<\h2CFD, \h2CFD>>, <<\h2D00, \h2D25>>, <<\h2D27, \h2D27>>,
     <<\h2D2D, \h2D2D>>, <<\h2D30, \h2D67>>, <<\h2D6F, \h2D6F>>,
     <<\h2D80, \h2D96>>, <<\h2DA0, \h2DA6>>, <<\h2DA8, \h2DAE>>,
     <<\h2DB0, \h2DB6>>, <<\h2DB8, \h2DBE>>, <<\h2DC0, \h2DC6>>,
     <<\h2DC8, \h2DCE>>, <<\h2DD0, \h2DD6>>, <<\h2DD8, \h2DDE>>,
     <<\h2E2F, \h2E2F>>, <<\h3005, \h3007>>, <<\h3021, \h3029>>,
     <<\h3031, \h3035>>, <<\h3038, \h303C>>, <<\h3041, \h3096>>,
     <<\h309D, \h309F>>, <<\h30A1, \h30FA>>, <<\h30FC, \h30FF>>,
     <<\h3105, \h312F>>, <<\h3131, \h318E>>, <<\h3192, \h3195>>,
     <<\h31A0, \h31BF>>, <<\h31F0, \h31FF>>, <<\h3220, \h3229>>,
     <<\h3248, \h324F>>, <<\h3251, \h325F>>, <<\h3280, \h3289>>,
     <<\h32B1, \h32BF>>, <<\h3400, \h4DBF>>, <<\h4E00, \hA48C>>,
     <<\hA4D0, \hA4FD>>, <<\hA500, \hA60C>>, <<\hA610, \hA62B>>,
     <<\hA640, \hA66E>>, <<\hA67F, \hA69D>>, <<\hA6A0, \hA6EF>>,
     <<\hA717, \hA71F>>, <<\hA722, \hA788>>, <<\hA78B, \hA7DC>>,
     <<\hA7F1, \hA801>>, <<\hA803, \hA805>>, <<\hA807, \hA80A>>,
     <<\hA80C, \hA822>>, <<\hA830, \hA835>>, <<\hA840, \hA873>>,
     <<\hA882, \hA8B3>>, <<\hA8D0, \hA8D9>>, <<\hA8F2, \hA8F7>>,
     <<\hA8FB, \hA8FB>>, <<\hA8FD, \hA8FE>>, <<\hA900, \hA925>>,
     <<\hA930, \hA946>>, <<\hA960, \hA97C>>, <<\hA984, \hA9B2>>,
     <<\hA9CF, \hA9D9>>, <<\hA9E0, \hA9E4>>, <<\hA9E6, \hA9FE>>,
     <<\hAA00, \hAA28>>, <<\hAA40, \hAA42>>, <<\hAA44, \hAA4B>>,
     <<\hAA50, \hAA59>>, <<\hAA60, \hAA76>>, <<\hAA7A, \hAA7A>>,
     <<\hAA7E, \hAAAF>>, <<\hAAB1, \hAAB1>>, <<\hAAB5, \hAAB6>>,
     <<\hAAB9, \hAABD>>, <<\hAAC0, \hAAC0>>, <<\hAAC2, \hAAC2>>,
     <<\hAADB, \hAADD>>, <<\hAAE0, \hAAEA>>, <<\hAAF2, \hAAF4>>,
     <<\hAB01, \hAB06>>, <<\hAB09, \hAB0E>>, <<\hAB11, \hAB16>>,
     <<\hAB20, \hAB26>>, <<\hAB28, \hAB2E>>, <<\hAB30, \hAB5A>>,
     <<\hAB5C, \hAB69>>, <<\hAB70, \hABE2>>, <<\hABF0, \hABF9>>,
     <<\hAC00, \hD7A3>>, <<\hD7B0, \hD7C6>>, <<\hD7CB, \hD7FB>>,
     <<\hF900, \hFA6D>>, <<\hFA70, \hFAD9>>, <<\hFB00, \hFB06>>,
     <<\hFB13, \hFB17>>, <<\hFB1D, \hFB1D>>, <<\hFB1F, \hFB28>>,
     <<\hFB2A, \hFB36>>, <<\hFB38, \hFB3C>>, <<\hFB3E, \hFB3E>>,
     <<\hFB40, \hFB41>>, <<\hFB43, \hFB44>>, <<\hFB46, \hFBB1>>,
     <<\hFBD3, \hFD3D>>, <<\hFD50, \hFD8F>>, <<\hFD92, \hFDC7>>,
     <<\hFDF0, \hFDFB>>, <<\hFE70, \hFE74>>, <<\hFE76, \hFEFC>>,
     <<\hFF10, \hFF19>>, <<\hFF21, \hFF3A>>, <<\hFF41, \hFF5A>>,
     <<\hFF66, \hFFBE>>, <<\hFFC2, \hFFC7>>, <<\hFFCA, \hFFCF>>,
     <<\hFFD2, \hFFD7>>, <<\hFFDA, \hFFDC>>, <<\h10000, \h1000B>>,
     <<\h1000D, \h10026>>, <<\h10028, \h1003A>>, <<\h1003C, \h1003D>>,
     <<\h1003F, \h1004D>>, <<\h10050, \h1005D>>, <<\h10080, \h100FA>>,
     <<\h10107, \h10133>>, <<\h10140, \h10178>>, <<\h1018A, \h1018B>>,
     <<\h10280, \h1029C>>, <<\h102A0, \h102D0>>, <<\h102E1, \h102FB>>,
     <<\h10300, \h10323>>, <<\h1032D, \h1034A>>, <<\h10350, \h10375>>,
     <<\h10380, \h1039D>>, <<\h103A0, \h103C3>>, <<\h103C8, \h103CF>>,
     <<\h103D1, \h103D5>>, <<\h10400, \h1049D>>, <<\h104A0, \h104A9>>,
     <<\h104B0, \h104D3>>, <<\h104D8, \h104FB>>, <<\h10500, \h10527>>,
     <<\h10530, \h10563>>, <<\h10570, \h1057A>>, <<\h1057C, \h1058A>>,
     <<\h1058C, \h10592>>, <<\h10594, \h10595>>, <<\h10597, \h105A1>>,
     <<\h105A3, \h105B1>>, <<\h105B3, \h105B9>>, <<\h105BB, \h105BC>>,
     <<\h105C0, \h105F3>>, <<\h10600, \h10736>>, <<\h10740, \h10755>>,
     <<\h10760, \h10767>>, <<\h10780, \h10785>>, <<\h10787, \h107B0>>,
     <<\h107B2, \h107BA>>, <<\h10800, \h10805>>, <<\h10808, \h10808>>,
     <<\h1080A, \h10835>>, <<\h10837, \h10838>>, <<\h1083C, \h1083C>>,
     <<\h1083F, \h10855>>, <<\h10858, \h10876>>, <<\h10879, \h1089E>>,
     <<\h108A7, \h108AF>>, <<\h108E0, \h108F2>>, <<\h108F4, \h108F5>>,
     <<\h108FB, \h1091B>>, <<\h10920, \h10939>>, <<\h10940, \h10959>>,
     <<\h10980, \h109B7>>, <<\h109BC, \h109CF>>, <<\h109D2, \h10A00>>,
     <<\h10A10, \h10A13>>, <<\h10A15, \h10A17>>, <<\h10A19, \h10A35>>,
     <<\h10A40, \h10A48>>, <<\h10A60, \h10A7E>>, <<\h10A80, \h10A9F>>,
     <<\h10AC0, \h10AC7>>, <<\h10AC9, \h10AE4>>, <<\h10AEB, \h10AEF>>,
     <<\h10B00, \h10B35>>, <<\h10B40, \h10B55>>, <<\h10B58, \h10B72>>,
     <<\h10B78, \h10B91>>, <<\h10BA9, \h10BAF>>, <<\h10C00, \h10C48>>,
     <<\h10C80, \h10CB2>>, <<\h10CC0, \h10CF2>>, <<\h10CFA, \h10D23>>,
     <<\h10D30, \h10D39>>, <<\h10D40, \h10D65>>, <<\h10D6F, \h10D85>>,
     <<\h10E60, \h10E7E>>, <<\h10E80, \h10EA9>>, <<\h10EB0, \h10EB1>>,
     <<\h10EC2, \h10EC7>>, <<\h10F00, \h10F27>>, <<\h10F30, \h10F45>>,
     <<\h10F51, \h10F54>>, <<\h10F70, \h10F81>>, <<\h10FB0, \h10FCB>>,
     <<\h10FE0, \h10FF6>>, <<\h11003, \h11037>>, <<\h11052, \h1106F>>,
     <<\h11071, \h11072>>, <<\h11075, \h11075>>, <<\h11083, \h110AF>>,
     <<\h110D0, \h110E8>>, <<\h110F0, \h110F9>>, <<\h11103, \h11126>>,
     <<\h11136, \h1113F>>, <<\h11144, \h11144>>, <<\h11147, \h11147>>,
     <<\h11150, \h11172>>, <<\h11176, \h11176>>, <<\h11183, \h111B2>>,
     <<\h111C1, \h111C4>>, <<\h111D0, \h111DA>>, <<\h111DC, \h111DC>>,
     <<\h111E1, \h111F4>>, <<\h11200, \h11211>>, <<\h11213, \h1122B>>,
     <<\h1123F, \h11240>>, <<\h11280, \h11286>>, <<\h11288, \h11288>>,
     <<\h1128A, \h1128D>>, <<\h1128F, \h1129D>>, <<\h1129F, \h112A8>>,
     <<\h112B0, \h112DE>>, <<\h112F0, \h112F9>>, <<\h11305, \h1130C>>,
     <<\h1130F, \h11310>>, <<\h11313, \h11328>>, <<\h1132A, \h11330>>,
     <<\h11332, \h11333>>, <<\h11335, \h11339>>, <<\h1133D, \h1133D>>,
     <<\h11350, \h11350>>, <<\h1135D, \h11361>>, <<\h11380, \h11389>>,
     <<\h1138B, \h1138B>>, <<\h1138E, \h1138E>>, <<\h11390, \h113B5>>,
     <<\h113B7, \h113B7>>, <<\h113D1, \h113D1>>, <<\h113D3, \h113D3>>,
     <<\h11400, \h11434>>, <<\h11447, \h1144A>>, <<\h11450, \h11459>>,
     <<\h1145F, \h11461>>, <<\h11480, \h114AF>>, <<\h114C4, \h114C5>>,
     <<\h114C7, \h114C7>>, <<\h114D0, \h114D9>>, <<\h11580, \h115AE>>,
     <<\h115D8, \h115DB>>, <<\h11600, \h1162F>>, <<\h11644, \h11644>>,
     <<\h11650, \h11659>>, <<\h11680, \h116AA>>, <<\h116B8, \h116B8>>,
     <<\h116C0, \h116C9>>, <<\h116D0, \h116E3>>, <<\h11700, \h1171A>>,
     <<\h11730, \h1173B>>, <<\h11740, \h11746>>, <<\h11800, \h1182B>>,
     <<\h118A0, \h118F2>>, <<\h118FF, \h11906>>, <<\h11909, \h11909>>,
     <<\h1190C, \h11913>>, <<\h11915, \h11916>>, <<\h11918, \h1192F>>,
     <<\h1193F, \h1193F>>, <<\h11941, \h11941>>, <<\h11950, \h11959>>,
     <<\h119A0, \h119A7>>, <<\h119AA, \h119D0>>, <<\h119E1, \h119E1>>,
     <<\h119E3, \h119E3>>, <<\h11A00, \h11A00>>, <<\h11A0B, \h11A32>>,
     <<\h11A3A, \h11A3A>>, <<\h11A50, \h11A50>>, <<\h11A5C, \h11A89>>,
     <<\h11A9D, \h11A9D>>, <<\h11AB0, \h11AF8>>, <<\h11BC0, \h11BE0>>,
     <<\h11BF0, \h11BF9>>, <<\h11C00, \h11C08>>, <<\h11C0A, \h11C2E>>,
     <<\h11C40, \h11C40>>, <<\h11C50, \h11C6C>>, <<\h11C72, \h11C8F>>,
     <<\h11D00, \h11D06>>, <<\h11D08, \h11D09>>, <<\h11D0B, \h11D30>>,
     <<\h11D46, \h11D46>>, <<\h11D50, \h11D59>>, <<\h11D60, \h11D65>>,
     <<\h11D67, \h11D68>>, <<\h11D6A, \h11D89>>, <<\h11D98, \h11D98>>,
     <<\h11DA0, \h11DA9>>, <<\h11DB0, \h11DDB>>, <<\h11DE0, \h11DE9>>,
     <<\h11EE0, \h11EF2>>, <<\h11F02, \h11F02>>, <<\h11F04, \h11F10>>,
     <<\h11F12, \h11F33>>, <<\h11F50, \h11F59>>, <<\h11FB0, \h11FB0>>,
     <<\h11FC0, \h11FD4>>, <<\h12000, \h12399>>, <<\h12400, \h1246E>>,
     <<\h12480, \h12543>>, <<\h12F90, \h12FF0>>, <<\h13000, \h1342F>>,
     <<\h13441, \h13446>>, <<\h13460, \h143FA>>, <<\h14400, \h14646>>,
     <<\h16100, \h1611D>>, <<\h16130, \h16139>>, <<\h16800, \h16A38>>,
     <<\h16A40, \h16A5E>>, <<\h16A60, \h16A69>>, <<\h16A70, \h16ABE>>,
     <<\h16AC0, \h16AC9>>, <<\h16AD0, \h16AED>>, <<\h16B00, \h16B2F>>,
     <<\h16B40, \h16B43>>, <<\h16B50, \h16B59>>, <<\h16B5B, \h16B61>>,
     <<\h16B63, \h16B77>>, <<\h16B7D, \h16B8F>>, <<\h16D40, \h16D6C>>,
     <<\h16D70, \h16D79>>, <<\h16E40, \h16E96>>, <<\h16EA0, \h16EB8>>,
     <<\h16EBB, \h16ED3>>, <<\h16F00, \h16F4A>>, <<\h16F50, \h16F50>>,
     <<\h16F93, \h16F9F>>, <<\h16FE0, \h16FE1>>, <<\h16FE3, \h16FE3>>,
     <<\h16FF2, \h16FF6>>, <<\h17000, \h18CD5>>, <<\h18CFF, \h18D1E>>,
     <<\h18D80, \h18DF2>>, <<\h1AFF0, \h1AFF3>>, <<\h1AFF5, \h1AFFB>>,
     <<\h1AFFD, \h1AFFE>>, <<\h1B000, \h1B122>>, <<\h1B132, \h1B132>>,
     <<\h1B150, \h1B152>>, <<\h1B155, \h1B155>>, <<\h1B164, \h1B167>>,
     <<\h1B170, \h1B2FB>>, <<\h1BC00, \h1BC6A>>, <<\h1BC70, \h1BC7C>>,
     <<\h1BC80, \h1BC88>>, <<\h1BC90, \h1BC99>>, <<\h1CCF0, \h1CCF9>>,
     <<\h1D2C0, \h1D2D3>>, <<\h1D2E0, \h1D2F3>>, <<\h1D360, \h1D378>>,
     <<\h1D400, \h1D454>>, <<\h1D456, \h1D49C>>, <<\h1D49E, \h1D49F>>,
     <<\h1D4A2, \h1D4A2>>, <<\h1D4A5, \h1D4A6>>, <<\h1D4A9, \h1D4AC>>,
     <<\h1D4AE, \h1D4B9>>, <<\h1D4BB, \h1D4BB>>, <<\h1D4BD, \h1D4C3>>,
     <<\h1D4C5, \h1D505>>, <<\h1D507, \h1D50A>>, <<\h1D50D, \h1D514>>,
     <<\h1D516, \h1D51C>>, <<\h1D51E, \h1D539>>, <<\h1D53B, \h1D53E>>,
     <<\h1D540, \h1D544>>, <<\h1D546, \h1D546>>, <<\h1D54A, \h1D550>>,
     <<\h1D552, \h1D6A5>>, <<\h1D6A8, \h1D6C0>>, <<\h1D6C2, \h1D6DA>>,
     <<\h1D6DC, \h1D6FA>>, <<\h1D6FC, \h1D714>>, <<\h1D716, \h1D734>>,
     <<\h1D736, \h1D74E>>, <<\h1D750, \h1D76E>>, <<\h1D770, \h1D788>>,
     <<\h1D78A, \h1D7A8>>, <<\h1D7AA, \h1D7C2>>, <<\h1D7C4, \h1D7CB>>,
     <<\h1D7CE, \h1D7FF>>, <<\h1DF00, \h1DF1E>>, <<\h1DF25, \h1DF2A>>,
     <<\h1E030, \h1E06D>>, <<\h1E100, \h1E12C>>, <<\h1E137, \h1E13D>>,
     <<\h1E140, \h1E149>>, <<\h1E14E, \h1E14E>>, <<\h1E290, \h1E2AD>>,
     <<\h1E2C0, \h1E2EB>>, <<\h1E2F0, \h1E2F9>>, <<\h1E4D0, \h1E4EB>>,
     <<\h1E4F0, \h1E4F9>>, <<\h1E5D0, \h1E5ED>>, <<\h1E5F0, \h1E5FA>>,
     <<\h1E6C0, \h1E6DE>>, <<\h1E6E0, \h1E6E2>>, <<\h1E6E4, \h1E6E5>>,
     <<\h1E6E7, \h1E6ED>>, <<\h1E6F0, \h1E6F4>>, <<\h1E6FE, \h1E6FF>>,
     <<\h1E7E0, \h1E7E6>>, <<\h1E7E8, \h1E7EB>>, <<\h1E7ED, \h1E7EE>>,
     <<\h1E7F0, \h1E7FE>>, <<\h1E800, \h1E8C4>>, <<\h1E8C7, \h1E8CF>>,
     <<\h1E900, \h1E943>>, <<\h1E94B, \h1E94B>>, <<\h1E950, \h1E959>>,
     <<\h1EC71, \h1ECAB>>, <<\h1ECAD, \h1ECAF>>, <<\h1ECB1, \h1ECB4>>,
     <<\h1ED01, \h1ED2D>>, <<\h1ED2F, \h1ED3D>>, <<\h1EE00, \h1EE03>>,
     <<\h1EE05, \h1EE1F>>, <<\h1EE21, \h1EE22>>, <<\h1EE24, \h1EE24>>,
     <<\h1EE27, \h1EE27>>, <<\h1EE29, \h1EE32>>, <<\h1EE34, \h1EE37>>,
     <<\h1EE39, \h1EE39>>, <<\h1EE3B, \h1EE3B>>, <<\h1EE42, \h1EE42>>,
     <<\h1EE47, \h1EE47>>, <<\h1EE49, \h1EE49>>, <<\h1EE4B, \h1EE4B>>,
     <<\h1EE4D, \h1EE4F>>, <<\h1EE51, \h1EE52>>, <<\h1EE54, \h1EE54>>,
     <<\h1EE57, \h1EE57>>, <<\h1EE59, \h1EE59>>, <<\h1EE5B, \h1EE5B>>,
     <<\h1EE5D, \h1EE5D>>, <<\h1EE5F, \h1EE5F>>, <<\h1EE61, \h1EE62>>,
     <<\h1EE64, \h1EE64>>, <<\h1EE67, \h1EE6A>>, <<\h1EE6C, \h1EE72>>,
     <<\h1EE74, \h1EE77>>, <<\h1EE79, \h1EE7C>>, <<\h1EE7E, \h1EE7E>>,
     <<\h1EE80, \h1EE89>>, <<\h1EE8B, \h1EE9B>>, <<\h1EEA1, \h1EEA3>>,
     <<\h1EEA5, \h1EEA9>>, <<\h1EEAB, \h1EEBB>>, <<\h1F100, \h1F10C>>,
     <<\h1FBF0, \h1FBF9>>, <<\h20000, \h2A6DF>>, <<\h2A700, \h2B81D>>,
     <<\h2B820, \h2CEAD>>, <<\h2CEB0, \h2EBE0>>, <<\h2EBF0, \h2EE5D>>,
     <<\h2F800, \h2FA1D>>, <<\h30000, \h3134A>>, <<\h31350, \h33479>>}
NameChars ==
    {"0", "1", "2", "3", "4", "5", "6", "7", "8", "9", "A", "B", "C", "D",
     "E", "F", "G", "H", "I", "J", "K", "L", "M", "N", "O", "P", "Q", "R",
     "S", "T", "U", "V", "W", "X", "Y", "Z", "a", "b", "c", "d", "e", "f",
     "g", "h", "i", "j", "k", "l", "m", "n", "o", "p", "q", "r", "s", "t",
     "u", "v", "w", "x", "y", "z", "ª", "²", "³", "µ", "¹", "º", "¼", "½",
     "¾", "À", "Á", "Â", "Ã", "Ä", "Å", "Æ", "Ç", "È", "É", "Ê", "Ë", "Ì",
     "Í", "Î", "Ï", "Ð", "Ñ", "Ò", "Ó", "Ô", "Õ", "Ö", "Ø", "Ù", "Ú", "Û",
     "Ü", "Ý", "Þ", "ß", "à", "á", "â", "ã", "ä", "å", "æ", "ç", "è", "é",
     "ê", "ë", "ì", "í", "î", "ï", "ð", "ñ", "ò", "ó", "ô", "õ", "ö", "ø",
     "ù", "ú", "û", "ü", "ý", "þ", "ÿ"} \cup
    {Tok(n) : n \in UNION {r[1]..r[2] : r \in NameRanges}}
IsNameChar(c) == c \in NameChars \/ IsSpace(c)
CleanUserName(name) == Trim(SelectSeq(name, IsNameChar))

\* greetingPrefix: "Hi ", the name, " ", the emoji U+1F60A and " ", or ""
\* without a name
GreetingPrefix(name) ==
    IF ~Truthy(name) THEN <<>> ELSE <<"H","i"," ">> \o name \o <<" ", Tok(\h1F60A), " ">>

\* the sender display names
N_Al   == <<"A","l","!">>
N_bang == <<"!"," ">>
SenderNames == {NoText, N_Al, N_bang}

\* matches.map(m => m.chunk).join("\n\n")
RECURSIVE ConcatChunks(_)
ConcatChunks(ms) == IF ms = <<>> THEN <<>> ELSE Head(ms) \o ConcatChunks(Tail(ms))
RECURSIVE JoinChunks(_)
JoinChunks(ms) ==
    IF ms = <<>> THEN <<>>
    ELSE IF Len(ms) = 1 THEN Head(ms)
    ELSE Head(ms) \o <<"\n", "\n">> \o JoinChunks(Tail(ms))

\* ${contextText || "No relevant context found."}
NoContextPlaceholder == <<"No relevant context found.">>
ContextOrPlaceholder(contextText) ==
    IF Truthy(contextText) THEN contextText ELSE NoContextPlaceholder

\* the last n elements: Array.prototype.slice(-n)
LastN(seq, n) == SubSeq(seq, IF Len(seq) > n THEN Len(seq) - n + 1 ELSE 1, Len(seq))

\* limits of the responders: rows of the history query, messages of history
\* given to the generation, matches asked of the knowledge index
HistoryLimit == 20
HistorySlice == 10
TopK == 5
GreetingHistoryLimit == 15
GreetingTopK == 6

---------------------------------------------------------------------------
(* Inputs *)

\* Message ids are numbered in order of first use: a request carries an id
\* already seen (a redelivery) or the next unused one.
MsgIds == 1..(MaxEvents + 1)
NoId == 0
Null == 0
User == "u1"
Business == "b1"
OtherBusiness == "b2"
ConvKeys == {<<User, Business>>}

\* Times, as the values of the column received_at compare.  The sender stamps
\* the event with message id i at i * TimeUnit, which is the time it arrives
\* when it is delivered at once (ids are numbered in order of first use), and
\* every delivery of the event carries that stamp; a sender whose clock is
\* behind stamps it at i, before every stamp of this kind; a payload without
\* the field has Null.  new Date() of the server lies after the arrival of
\* every request received so far and grows with every row stored
\* (ServerTime); two readings with no arrival and no row stored in between
\* may give the same millisecond.  The rows of an earlier conversation have
\* negative times.
TimeUnit == MaxStored + 2 * (MaxEvents + 2)
Stamp(id) == id * TimeUnit
Behind(id) == id
ServerTime == nEvents * TimeUnit + Len(messages) + 1

\* type WhatsAppWebhookPayload.  mediaUrl is its presence; a missing id is NoId, a
\* missing sender or recipient is "".
\* senderName is whatsapp.senderName, NoText when absent.
\* UserResponse is NoText when absent; receivedAt is a time, Null when absent.
TextPayloads(ids, texts, events) ==
    UNION {[messageId : {i}, from : {User}, to : {Business}, contentType : {"text"},
            text : texts, UserResponse : {NoText}, mediaUrl : {FALSE},
            event : events, receivedAt : {Stamp(i)},
            senderName : IF impl = "greeting" THEN SenderNames ELSE {NoText}]
           : i \in ids}
\* an audio event of either kind takes the audio branch of route.ts 60-79
AudioPayloads(ids) ==
    UNION {[messageId : {i}, from : {User}, to : {Business}, contentType : {"audio"},
            text : {NoText}, UserResponse : {NoText}, mediaUrl : BOOLEAN,
            event : {"MoMessage", "MtMessage"}, receivedAt : {Stamp(i)}, senderName : {NoText}]
           : i \in ids}
\* a text carried by UserResponse only; a text with a receivedAt that is behind
\* or absent; a content that is neither text nor audio
OddPayloads(ids) ==
    UNION {[messageId : {i}, from : {User}, to : {Business}, contentType : {"text"},
            text : {NoText}, UserResponse : {U_hello}, mediaUrl : {FALSE},
            event : {"MoMessage"}, receivedAt : {Stamp(i)}, senderName : {NoText}]
           \cup
           [messageId : {i}, from : {User}, to : {Business}, contentType : {"text"},
            text : {U_hello}, UserResponse : {NoText}, mediaUrl : {FALSE},
            event : {"MoMessage"}, receivedAt : {Behind(i), Null},
            senderName : {NoText}]
           \cup
           [messageId : {i}, from : {User}, to : {Business}, contentType : {"image"},
            text : {NoText}, UserResponse : {NoText}, mediaUrl : {FALSE},
            event : {"MoMessage"}, receivedAt : {Stamp(i)}, senderName : {NoText}]
           : i \in ids}
InvalidPayloads(ids) ==
    {pl \in [messageId : ids \cup {NoId}, from : {User, ""}, to : {Business, ""},
             contentType : {"text"}, text : {U_hello}, UserResponse : {NoText},
             mediaUrl : {FALSE}, event : {"MoMessage"}, receivedAt : {Null},
             senderName : {NoText}] :
        \/ pl.messageId = NoId /\ pl.from = User /\ pl.to = Business
        \/ pl.messageId # NoId /\ pl.from = "" /\ pl.to = Business
        \/ pl.messageId # NoId /\ pl.from = User /\ pl.to = ""}

\* The ids the next request may carry: under the session variant every event is
\* a new one, under the others it may be a redelivery.
NextIds == IF impl = "session" THEN {nEvents + 1} ELSE 1..(nEvents + 1)

\* The requests each build is driven with: the session variant with the
\* utterances its state machine reads, the others with the kinds of event.
Payloads(ids) ==
    IF impl = "session"
      THEN TextPayloads(ids, Utterances, {"MoMessage"})
    ELSE IF impl = "greeting"
      THEN TextPayloads(ids, {U_hello}, {"MoMessage"}) \cup AudioPayloads(ids)
      ELSE TextPayloads(ids, {U_hello, NoText}, {"MoMessage"})
             \cup TextPayloads(ids, {U_hello}, {"MtMessage"})
             \cup AudioPayloads(ids)
             \cup OddPayloads(ids)
             \cup InvalidPayloads(ids)

\* What the knowledge index holds for a query: a rank list of n chunks, best
\* first.  retrieveRelevantChunksFromFiles(embedding, fileIds, k) gives its k
\* best matches.
ChunkNames == <<"c1", "c2", "c3", "c4", "c5", "c6", "c7", "c8">>
RankList(n) == [i \in 1..n |-> <<ChunkNames[i]>>]
KnowledgeIndexes == {RankList(n) : n \in 0..MaxIndex}
OneChunkIndex == {RankList(1)}
Retrieve(index, k) == SubSeq(index, 1, IF Len(index) < k THEN Len(index) ELSE k)

\* What the transcription collaborator can give for a media URL: a text, or null.
Transcripts == {U_hello}

\* Outcomes of sendWhatsAppMessage: {success: true}, {success: false, error}, a throw.
SendOutcomes == {"ok", "fail", "throw"}

\* The configurations of the business number: files mapped and credentials set,
\* files mapped without credentials, no file mapped.
PhoneCfgs == {"full", "nocreds", "nofiles"}

---------------------------------------------------------------------------
(* State *)

NoSession == [exists |-> FALSE, conversation_state |-> "", last_user_message |-> NoText]

NoResp == [status |-> 0, success |-> FALSE, duplicate |-> FALSE]
NoResult == [returned |-> FALSE, success |-> FALSE, sent |-> "undefined", error |-> ""]

IdlePayload ==
    [messageId |-> NoId, from |-> "", to |-> "", contentType |-> "text",
     text |-> NoText, UserResponse |-> NoText, mediaUrl |-> FALSE,
     event |-> "MoMessage", receivedAt |-> Null, senderName |-> NoText]

IdleReq ==
    [pc |-> "idle", parsed |-> FALSE, payload |-> IdlePayload,
     finalUserText |-> NoText,
     resp |-> NoResp, result |-> NoResult,
     sessionState |-> "", finalText |-> NoText, reply |-> NoText,
     mediaUrl |-> FALSE, senderName |-> NoText,
     contextText |-> NoText, history |-> <<>>, replyAt |-> Null,
     stoppedAtReceipt |-> FALSE]

\* a row of whatsapp_messages
InboundId(id) == [base |-> id, auto |-> FALSE]
AutoId(id)    == [base |-> id, auto |-> TRUE]

\* The rows an earlier conversation of the user with business number `biz`
\* left in the store: inbound texts and the replies to them, oldest first.
PriorRow(i, n, biz) ==
    IF i % 2 = 1
      THEN [message_id |-> [base |-> 0 - i, auto |-> FALSE], from_number |-> User,
            to_number |-> biz, content_text |-> U_hello, event_type |-> "MoMessage",
            received_at |-> i - n - 1, auto_respond_sent |-> (i < n)]
      ELSE [message_id |-> [base |-> 1 - i, auto |-> TRUE], from_number |-> biz,
            to_number |-> User, content_text |-> LlmReply, event_type |-> "MtMessage",
            received_at |-> i - n - 1, auto_respond_sent |-> FALSE]
PriorStore(n, biz) == [i \in 1..n |-> PriorRow(i, n, biz)]
PriorStores == {PriorStore(n, biz) : n \in 0..MaxStored, biz \in {Business, OtherBusiness}}

\* the other endpoints and helpers, not yet called
DetectIdle ==
    [pc |-> "idle", source |-> "", text |-> NoText, outcome |-> "",
     content |-> NoText, result |-> NoText]

ChatReqs == 1..NChat
StreamIdle ==
    [pc |-> "idle", route |-> "", context |-> FALSE, chunks |-> <<>>, next |-> 1,
     queue |-> <<>>, closes |-> 0, errors |-> 0, status |-> 0, body |-> <<>>]

SettingsReqs == 1..NSettings
NoBody ==
    [f \in {"intent", "system_prompt", "auth_token", "origin"} |-> "absent"]
SetReqIdle ==
    [pc |-> "idle", route |-> "", body |-> NoBody, generated |-> Null,
     found |-> FALSE, fileIds |-> FALSE, applied |-> 0, status |-> 0]

\* a row of phone_document_mapping that maps a file to the phone number, and
\* the credentials of that file in rag_files
MappedFile == 1
MappedRow ==
    [intent |-> Null, system_prompt |-> Null, auth_token |-> Null,
     origin |-> Null, file_id |-> MappedFile]
NoCredentials == [auth_token |-> Null, origin |-> Null]

SpeechCalls == 1..NSpeech
SttSlots == 1..(NSpeech + NProc)
Paths == 1..(2 * MaxClock)
NoFile == [exists |-> FALSE, content |-> 0, writer |-> 0]
SttIdle ==
    [pc |-> "idle", version |-> "", audio |-> 0, path |-> 0, sent |-> <<>>,
     fd |-> "closed", held |-> 0, unlinked |-> 0, result |-> 0, error |-> ""]

OthersIdle ==
    /\ detect = DetectIdle
    /\ stream = [r \in ChatReqs |-> StreamIdle]
    /\ mappings = <<>>
    /\ ragFiles = NoCredentials
    /\ setreq = [r \in SettingsReqs |-> SetReqIdle]
    /\ files = [f \in Paths |-> NoFile]
    /\ stt = [c \in SttSlots |-> SttIdle]
    /\ clock = 1

\* the webhook, not called
HookIdle ==
    /\ impl = "rag"
    /\ phoneCfg = "full"
    /\ messages = <<>>
    /\ sessions = [k \in ConvKeys |-> NoSession]
    /\ sends = [i \in MsgIds |-> <<>>]
    /\ req = [p \in Procs |-> IdleReq]
    /\ calls = [p \in Procs |-> <<>>]
    /\ nEvents = 0
InitCommon ==
    /\ phoneCfg \in PhoneCfgs
    /\ messages = <<>>
    /\ sessions = [k \in ConvKeys |-> NoSession]
    /\ sends = [i \in MsgIds |-> <<>>]
    /\ req = [p \in Procs |-> IdleReq]
    /\ calls = [p \in Procs |-> <<>>]
    /\ nEvents = 0
    /\ OthersIdle

---------------------------------------------------------------------------
(* NextResponse.json of the webhook handler *)

Json400     == [status |-> 400, success |-> FALSE, duplicate |-> FALSE]
Json500     == [status |-> 500, success |-> FALSE, duplicate |-> FALSE]
JsonSuccess == [status |-> 200, success |-> TRUE, duplicate |-> FALSE]
JsonDuplicate == [status |-> 200, success |-> TRUE, duplicate |-> TRUE]

Respond(p, r) == [req EXCEPT ![p].pc = "done", ![p].resp = r]

Called(p, names) == [calls EXCEPT ![p] = @ \o names]

\* first await of the responder the route is linked with
ResponderEntry ==
    CASE impl = "rag"     -> "rag_files"
      [] impl = "session" -> "ses_read"
      [] impl = "guard"   -> "grd_check"
      [] impl = "greeting" -> "grt_files"
      [] impl = "basic"   -> "bas_files"

\* a handler that would answer 500 on a failed result
ReturnFromResponderChecked(p, res) ==
    [req EXCEPT ![p].pc = "done", ![p].result = res,
                ![p].resp = IF res.success THEN JsonSuccess ELSE Json500]

\* `return` of generateAutoResponse into the webhook handler, which logs the
\* result and answers 200 whatever it is (route.ts 131-141)
ReturnFromResponder(p, res) ==
    [req EXCEPT ![p].pc = "done", ![p].result = res, ![p].resp = JsonSuccess]

ResultOf(success, sent, error) ==
    [returned |-> TRUE, success |-> success, sent |-> sent, error |-> error]

---------------------------------------------------------------------------
(* POST of the webhook route *)

\* finalUserText of a text message: content.text || UserResponse || null
TextOf(pl) == IF Truthy(pl.text) THEN pl.text ELSE pl.UserResponse

\* the request after validation and the text / audio case split, up to the
\* next await
Dispatched(r0, pl) ==
    IF pl.contentType = "text"
      THEN [r0 EXCEPT !.pc = "insert", !.finalUserText = TextOf(pl)]
    ELSE IF pl.contentType = "audio" /\ ~pl.mediaUrl
      THEN [r0 EXCEPT !.pc = "done", !.resp = JsonSuccess]
    ELSE IF pl.contentType = "audio"
      THEN [r0 EXCEPT !.pc = "transcribe"]
    ELSE [r0 EXCEPT !.pc = "insert"]

\* a handler that would not validate the payload
ValidatedNever(r0, pl) == Dispatched(r0, pl)
\* `if (!payload.messageId || !payload.from || !payload.to)` answers 400
Validated(r0, pl) ==
    IF pl.messageId = NoId \/ pl.from = "" \/ pl.to = ""
      THEN [r0 EXCEPT !.pc = "done", !.resp = Json400]
      ELSE Dispatched(r0, pl)

\* `await req.json()` inside the try, validation, and the case split.  A body
\* that is not JSON makes req.json() reject, and the catch answers 500.
\* The request is taken by the lowest free slot (the slots are interchangeable),
\* and at most `limit` requests arrive in all.
Receive(p, limit) ==
    /\ req[p].pc \in {"idle", "done"}
    /\ \A q \in Procs : q < p => req[q].pc \notin {"idle", "done"}
    /\ nEvents < limit
    /\ nEvents' = nEvents + 1
    /\ calls' = [calls EXCEPT ![p] = <<>>]
    /\ \/ \E pl \in Payloads(NextIds) :
            LET r0 == [IdleReq EXCEPT !.parsed = TRUE, !.payload = pl,
                         !.stoppedAtReceipt =
                            /\ <<pl.from, pl.to>> \in ConvKeys
                            /\ sessions[<<pl.from, pl.to>>].conversation_state = "STOPPED"]
            IN req' = [req EXCEPT ![p] = Validated(r0, pl)]
       \/ req' = [req EXCEPT ![p] = [IdleReq EXCEPT !.pc = "done", !.resp = Json500]]
    /\ UNCHANGED <<otherVars, impl, phoneCfg, messages, sessions, sends>>

\* transcription = await transcribeAudioFromUrl(mediaUrl)
Transcribe(p) ==
    /\ req[p].pc = "transcribe"
    /\ calls' = Called(p, <<"transcribe">>)
    /\ \/ \E t \in Transcripts :
            req' = [req EXCEPT ![p].pc = "insert", ![p].finalUserText = t]
       \/ req' = Respond(p, JsonSuccess)          \* null: transcription failed
       \/ req' = Respond(p, Json500)              \* the call throws
    /\ UNCHANGED <<otherVars, impl, phoneCfg, messages, sessions, sends, nEvents>>

HasMessage(mid) == \E i \in 1..Len(messages) : messages[i].message_id = mid

InboundRow(pl, text) ==
    [message_id |-> InboundId(pl.messageId), from_number |-> pl.from,
     to_number |-> pl.to, content_text |-> text, event_type |-> pl.event,
     received_at |-> pl.receivedAt, auto_respond_sent |-> FALSE]

\* the branch taken after the insert: duplicate, answer, or acknowledge only
AfterInsertIgnoringDuplicate(p, duplicate) ==
    IF Truthy(req[p].finalUserText) /\ req[p].payload.event = "MoMessage"
      THEN [req EXCEPT ![p].pc = ResponderEntry]
      ELSE Respond(p, JsonSuccess)
\* a handler that would hand the sender name of the payload to the responder
AfterInsertPassingName(p, duplicate) ==
    IF duplicate THEN Respond(p, JsonDuplicate)
    ELSE IF Truthy(req[p].finalUserText) /\ req[p].payload.event = "MoMessage"
      THEN [req EXCEPT ![p].pc = ResponderEntry,
                       ![p].senderName = req[p].payload.senderName]
      ELSE Respond(p, JsonSuccess)
AfterInsert(p, duplicate) ==
    IF duplicate THEN Respond(p, JsonDuplicate)
    ELSE IF Truthy(req[p].finalUserText) /\ req[p].payload.event = "MoMessage"
      THEN [req EXCEPT ![p].pc = ResponderEntry]
      ELSE Respond(p, JsonSuccess)

\* supabase.from("whatsapp_messages").insert([...]) under the unique message_id,
\* then the 23505 branch and the auto-response condition; any other insert
\* error is thrown and answered with status 500
Insert(p) ==
    /\ req[p].pc = "insert"
    /\ LET dup == HasMessage(InboundId(req[p].payload.messageId))
       IN \/ /\ calls' = Called(p, IF dup THEN <<"insert_duplicate">> ELSE <<"insert">>)
             /\ messages' = IF dup THEN messages
                            ELSE Append(messages,
                                        InboundRow(req[p].payload, req[p].finalUserText))
             /\ req' = AfterInsert(p, dup)
          \/ /\ calls' = Called(p, <<"insert_error">>)
             /\ messages' = messages
             /\ req' = Respond(p, Json500)
    /\ UNCHANGED <<otherVars, impl, phoneCfg, sessions, sends, nEvents>>

---------------------------------------------------------------------------
(* speechToText(audioUrl): the two versions of src/src/lib/speechToText.ts, *)
(* "rest" 8-68 and "sdk" 82-118, which the responders of autoResponder.ts,  *)
(* language.ts and part_000 import, and the one of part_001 30-52, "own";   *)
(* speechToText(audioBuffer) of part_003 9-25, "buffer", shares their steps *)
(* from the read stream on                                                 *)

\* Call c downloads the audio c; a file holds the audio written to it and,
\* for the properties, the call that wrote it.  The transcript of an audio is
\* written as the audio itself, null as 0.  The calls 1..NSpeech are made on
\* their own, the call SlotOf(p) is the one the responder of request p awaits.
SttVersions == {"rest", "sdk"}
SlotOf(p) == NSpeech + p

\* /tmp/voice-${Date.now()}.ogg, and /tmp/audio-${Date.now()}.ogg in part_001
\* and part_003
PathOf(version, now) == IF version \in {"own", "buffer"} THEN MaxClock + now ELSE now

\* the message of the error part_001 throws when the download is refused
DownloadError == "Failed to download WhatsApp audio"

\* the call ends with a result
SttReturn(c, result) ==
    [stt EXCEPT ![c].pc = "returned", ![c].result = result, ![c].fd = "closed"]

\* a throw inside the call: speechToText.ts catches it and returns null (0);
\* part_001 and part_003 have no catch and the error goes to the caller with
\* its message
SttThrow(c, error) ==
    [stt EXCEPT ![c].pc = "returned", ![c].result = 0, ![c].fd = "closed",
                ![c].error = IF stt[c].version \in {"own", "buffer"} THEN error ELSE ""]

\* `await fetch(audioUrl)` ends: with a response, with a response that is not
\* ok, which is thrown, or with a throw of its own
Fetched(c) ==
    /\ stt[c].pc = "download"
    /\ \E outcome \in {"ok", "not_ok", "throw"} :
         stt' = CASE outcome = "ok"     -> [stt EXCEPT ![c].pc = "buffer"]
                  [] outcome = "not_ok" -> SttThrow(c, DownloadError)
                  [] outcome = "throw"  -> SttThrow(c, "thrown")
    /\ files' = files

\* `await audioRes.arrayBuffer()` ends, with a throw or with the audio.  The
\* audio is written to the path named after Date.now(): a file that is there
\* is written over, and a stream that is open on it reads the new content.
\* The rest version reads the file back at once (readFileSync) and sends the
\* request; the other versions hand a read stream on the path to the client.
Downloaded(c) ==
    /\ stt[c].pc = "buffer"
    /\ \/ /\ stt' = SttThrow(c, "thrown")
          /\ files' = files
       \/ LET path == PathOf(stt[c].version, clock)
          IN  /\ files' = [files EXCEPT ![path] =
                             [exists |-> TRUE, content |-> stt[c].audio, writer |-> c]]
              /\ stt' = IF stt[c].version = "rest"
                          THEN [stt EXCEPT ![c].pc = "transcribing", ![c].path = path,
                                           ![c].sent = <<stt[c].audio, stt[c].audio>>]
                          ELSE [stt EXCEPT ![c].pc = "opening", ![c].path = path]

\* the read stream opens the path; a path that is gone is an error of the
\* request, thrown
Opened(c) ==
    /\ stt[c].pc = "opening"
    /\ stt' = IF files[stt[c].path].exists
                THEN [stt EXCEPT ![c].pc = "reading", ![c].fd = "open"]
                ELSE SttThrow(c, "thrown")
    /\ files' = files

\* the stream reads the file in pieces, here a first and a last one, each
\* with what the file holds when it is read; a file that was unlinked since
\* the stream opened is read as it was when it was unlinked
ReadBack(c) ==
    /\ stt[c].pc = "reading"
    /\ LET piece == IF stt[c].fd = "open" THEN files[stt[c].path].content
                                          ELSE stt[c].held
       IN  stt' = IF stt[c].sent = <<>>
                    THEN [stt EXCEPT ![c].sent = <<piece>>]
                    ELSE [stt EXCEPT ![c].sent = Append(stt[c].sent, piece),
                                     ![c].pc = "transcribing", ![c].fd = "closed"]
    /\ files' = files

\* fs.unlinkSync(path) of call c: the file goes, and the streams of other
\* calls that are open on it keep what it held
Unlinked(c) ==
    [d \in SttSlots |->
        IF d # c /\ stt[d].fd = "open" /\ stt[d].path = stt[c].path
          THEN [stt[d] EXCEPT !.fd = "detached", !.held = files[stt[c].path].content]
          ELSE stt[d]]

\* the transcript of what was sent; of an audio made of pieces of two, the
\* transcript of either
TranscriptsOf(c) == {stt[c].sent[i] : i \in 1..Len(stt[c].sent)}

\* the transcription request ends: with a throw (in the SDK version an error
\* status is one) and the file stays, or with a response.  After a response
\* fs.unlinkSync(path) runs, and it throws when the path is gone.  The rest
\* version then awaits the body of the response, res.text() of an error
\* status or res.json(); the other versions return: null for a missing text
\* in speechToText.ts, the text "" in part_001, and in part_003 an object
\* whose text is what the transcription holds.
Transcribed(c) ==
    /\ stt[c].pc = "transcribing"
    /\ \E outcome \in {"text", "no_text", "error_status", "throw"} :
         /\ outcome = "error_status" => stt[c].version = "rest"
         /\ IF outcome = "throw"
              THEN /\ stt' = SttThrow(c, "thrown")
                   /\ files' = files
            ELSE IF ~files[stt[c].path].exists
              THEN /\ stt' = SttThrow(c, "thrown")
                   /\ files' = files
            ELSE /\ files' = [files EXCEPT ![stt[c].path] = NoFile]
                 /\ \E t \in TranscriptsOf(c) :
                      stt' = [Unlinked(c) EXCEPT
                                ![c].unlinked = files[stt[c].path].writer,
                                ![c].pc = IF stt[c].version = "rest" THEN "body"
                                          ELSE "returned",
                                ![c].result =
                                    IF outcome = "text"
                                         \/ (outcome = "no_text"
                                               /\ stt[c].version \in {"own", "buffer"})
                                      THEN t ELSE 0]

\* the body of the response of the rest version has come, or its reading
\* has thrown: `await res.text()` of an error status gives null either way,
\* `await res.json()` the text, or null when it throws or holds no text
Parsed(c) ==
    /\ stt[c].pc = "body"
    /\ \/ stt' = SttReturn(c, stt[c].result)
       \/ stt' = SttReturn(c, 0)
    /\ files' = files

\* Date.now() moves on
Tick ==
    /\ clock < MaxClock
    /\ clock' = clock + 1
    /\ UNCHANGED <<hookVars, detect, stream, mappings, ragFiles, setreq, files, stt>>

\* one await of the call ends
SpeechStep(c) ==
    Fetched(c) \/ Downloaded(c) \/ Opened(c) \/ ReadBack(c) \/ Transcribed(c) \/ Parsed(c)

\* `await speechToText(mediaUrl)` of a responder: the call begins in the step
\* that takes the voice branch, with fetch(audioUrl) under way
SpeechPcs == {"ses_stt", "rag_stt", "bas_stt", "grd_stt", "grt_stt"}
SpeechStarts(p) ==
    IF req'[p].pc \in SpeechPcs
      THEN \E v \in IF impl = "basic" THEN {"own"} ELSE SttVersions :
             stt' = [stt EXCEPT ![SlotOf(p)] =
                       [SttIdle EXCEPT !.pc = "download", !.version = v,
                                       !.audio = SlotOf(p)]]
      ELSE stt' = stt

\* an await inside the call ends and the call goes on to its next await
SpeechAwait(p) ==
    /\ req[p].pc \in SpeechPcs
    /\ SpeechStep(SlotOf(p))
    /\ stt'[SlotOf(p)].pc # "returned"
    /\ UNCHANGED <<hookVars, detect, stream, mappings, ragFiles, setreq, clock>>

\* the call returns to the responder, in the step of its last await
SpeechReturns(p) ==
    /\ SpeechStep(SlotOf(p))
    /\ stt'[SlotOf(p)].pc = "returned"
\* the texts a result can hold: speechToText.ts gives null or a trimmed
\* text that is not empty, part_001 `transcription.text || ""`
Heard(p) ==
    IF stt'[SlotOf(p)].result = 0 THEN {NoText}
    ELSE IF impl = "basic" THEN Transcripts \cup {NoText}
    ELSE {Trim(t) : t \in Transcripts}

---------------------------------------------------------------------------
(* generateAutoResponse, session variant: src/src/lib/autoResponder.ts 297-421 *)

KeyOf(p) == <<req[p].payload.from, req[p].payload.to>>

\* supabase.from("whatsapp_sessions").upsert({...})
SessionRow(state, text) ==
    [exists |-> TRUE, conversation_state |-> state, last_user_message |-> text]
Upsert(key, state, text) == [sessions EXCEPT ![key] = SessionRow(state, text)]

\* result of a throw inside the try: the catch returns { success: false }
SesCaught(p) == ReturnFromResponder(p, ResultOf(FALSE, "undefined", ""))

\* the path a normalized text takes: the negative-intent branch or the answer
RouteAlwaysAnswer(lower) == "ses_files"
RouteOf(lower) == IF NegativeIntent(lower) THEN "ses_stop" ELSE "ses_files"

\* `if (!finalText) return { success: false }`, then lower and the route
SesNormalized(p, text) ==
    IF ~Truthy(text)
      THEN ReturnFromResponder(p, ResultOf(FALSE, "undefined", ""))
      ELSE [req EXCEPT ![p].finalText = text, ![p].pc = RouteOf(ToLowerCase(text))]

\* `const { data: session } = await supabase...single()`: the state of the row,
\* or that of no session when the read fails (data is null, the error is not
\* destructured)
SessionSeen(key, failed) ==
    IF failed THEN "" ELSE sessions[key].conversation_state

\* 1. session check, 2. normalize input, and the negative-intent test.  The
\* voice branch needs the mediaUrl argument, which the webhook route never
\* passes.
SesRead(p) ==
    /\ req[p].pc = "ses_read"
    /\ \E failed \in BOOLEAN :
         /\ calls' = Called(p, IF failed THEN <<"session_read_error">>
                                         ELSE <<"session_read">>)
         /\ LET state == SessionSeen(KeyOf(p), failed)
                text  == Trim(req[p].finalUserText)
            IN req' =
                 IF state = "STOPPED"
                   THEN ReturnFromResponder(p, ResultOf(TRUE, "undefined", ""))
                 ELSE IF ~Truthy(text) /\ req[p].mediaUrl
                   THEN [req EXCEPT ![p].sessionState = state, ![p].pc = "ses_stt"]
                 ELSE IF ~Truthy(text)
                   THEN SesNormalized(p, text)
                 ELSE [SesNormalized(p, text) EXCEPT ![p].sessionState = state]
    /\ SpeechStarts(p)
    /\ UNCHANGED <<detect, stream, mappings, ragFiles, setreq, files, clock,
                   impl, phoneCfg, messages, sessions, sends, nEvents>>

\* what follows `const stt = await speechToText(mediaUrl)`; a null result and
\* an empty text are both NoText
AfterSpeechToTextIgnoringNull(p, text) ==
    [req EXCEPT ![p].finalText = Trim(text), ![p].pc = RouteOf(ToLowerCase(Trim(text)))]
AfterSpeechToText(p, text) ==
    IF ~Truthy(text)
      THEN ReturnFromResponder(p, ResultOf(FALSE, "undefined", ""))
      ELSE SesNormalized(p, Trim(text))

\* the voice branch: speechToText gives { text, language } or null, never throws
SesStt(p) ==
    /\ req[p].pc = "ses_stt"
    /\ SpeechReturns(p)
    /\ calls' = Called(p, <<"speech_to_text">>)
    /\ \E t \in Heard(p) : req' = AfterSpeechToText(p, t)
    /\ UNCHANGED <<detect, stream, mappings, ragFiles, setreq, clock,
                   impl, phoneCfg, messages, sessions, sends, nEvents>>

\* conversation_state written on negative intent
StoppedState(text) == "STOPPED"

\* negative intent: upsert the session as STOPPED; the result of the upsert is
\* not read, and a rejected upsert writes no row
SesStop(p) ==
    /\ req[p].pc = "ses_stop"
    /\ \/ /\ calls' = Called(p, <<"session_upsert">>)
          /\ sessions' = Upsert(KeyOf(p), StoppedState(req[p].finalText),
                                req[p].finalText)
       \/ /\ calls' = Called(p, <<"session_upsert_error">>)
          /\ sessions' = sessions
    /\ req' = [req EXCEPT ![p].pc = "ses_stop_send"]
    /\ UNCHANGED <<otherVars, impl, phoneCfg, messages, sends, nEvents>>

SendRecord(p, text, outcome) ==
    [dest |-> req[p].payload.from, text |-> text, outcome |-> outcome]
Sent(p, text, outcome) ==
    [sends EXCEPT ![req[p].payload.messageId] = Append(@, SendRecord(p, text, outcome))]

\* negative intent: send the close text, return { success: true }
SesStopSend(p) ==
    /\ req[p].pc = "ses_stop_send"
    /\ calls' = Called(p, <<"send">>)
    /\ \E o \in SendOutcomes :
         /\ sends' = Sent(p, PoliteClose, o)
         /\ req' = IF o = "throw" THEN SesCaught(p)
                   ELSE ReturnFromResponder(p, ResultOf(TRUE, "undefined", ""))
    /\ UNCHANGED <<otherVars, impl, phoneCfg, messages, sessions, nEvents>>

\* 3. language, 4. files: getFilesForPhoneNumber(toNumber), which may throw
SesFiles(p) ==
    /\ req[p].pc = "ses_files"
    /\ calls' = Called(p, <<"files">>)
    /\ \/ req' = IF phoneCfg = "nofiles"
                   THEN [req EXCEPT ![p].pc = "ses_nofiles_send",
                           ![p].reply = Fallback(DetectLanguageLocal(req[p].finalText))]
                   ELSE [req EXCEPT ![p].pc = "ses_embed"]
       \/ req' = SesCaught(p)
    /\ UNCHANGED <<otherVars, impl, phoneCfg, messages, sessions, sends, nEvents>>

\* no file mapped: send the fallback text, return { success: true }
SesNoFilesSend(p) ==
    /\ req[p].pc = "ses_nofiles_send"
    /\ calls' = Called(p, <<"send">>)
    /\ \E o \in SendOutcomes :
         /\ sends' = Sent(p, req[p].reply, o)
         /\ req' = IF o = "throw" THEN SesCaught(p)
                   ELSE ReturnFromResponder(p, ResultOf(TRUE, "undefined", ""))
    /\ UNCHANGED <<otherVars, impl, phoneCfg, messages, sessions, nEvents>>

\* 5. `const embedding = await embedText(finalText)`: a vector or null, which
\* is passed on unchecked, or a throw
SesEmbed(p) ==
    /\ req[p].pc = "ses_embed"
    /\ calls' = Called(p, <<"embed">>)
    /\ \/ req' = [req EXCEPT ![p].pc = "ses_retrieve"]
       \/ req' = SesCaught(p)
    /\ UNCHANGED <<otherVars, impl, phoneCfg, messages, sessions, sends, nEvents>>

\* `const matches = await retrieveRelevantChunksFromFiles(embedding, fileIds, 5)`
SesRetrieve(p) ==
    /\ req[p].pc = "ses_retrieve"
    /\ calls' = Called(p, <<"retrieve">>)
    /\ \/ req' = [req EXCEPT ![p].pc = "ses_llm"]
       \/ req' = SesCaught(p)
    /\ UNCHANGED <<otherVars, impl, phoneCfg, messages, sessions, sends, nEvents>>

\* 7. groq.chat.completions.create; reply = content.trim() || fallback(language)
SesLlm(p) ==
    /\ req[p].pc = "ses_llm"
    /\ calls' = Called(p, <<"generate">>)
    /\ \/ req' = [req EXCEPT ![p].pc = "ses_send", ![p].reply = LlmReply]
       \/ req' = [req EXCEPT ![p].pc = "ses_send",
                    ![p].reply = Fallback(DetectLanguageLocal(req[p].finalText))]
       \/ req' = SesCaught(p)
    /\ UNCHANGED <<otherVars, impl, phoneCfg, messages, sessions, sends, nEvents>>

\* 8. send the reply; the result is not looked at, a throw goes to the catch
SesSend(p) ==
    /\ req[p].pc = "ses_send"
    /\ calls' = Called(p, <<"send">>)
    /\ \E o \in SendOutcomes :
         /\ sends' = Sent(p, req[p].reply, o)
         /\ req' = IF o = "throw" THEN SesCaught(p)
                   ELSE [req EXCEPT ![p].pc = "ses_save"]
    /\ UNCHANGED <<otherVars, impl, phoneCfg, messages, sessions, nEvents>>

\* 9. save the session as ACTIVE, return { success: true, response: reply };
\* the result of the upsert is not read, and a rejected upsert writes no row
SesSave(p) ==
    /\ req[p].pc = "ses_save"
    /\ \/ /\ calls' = Called(p, <<"session_upsert">>)
          /\ sessions' = Upsert(KeyOf(p), "ACTIVE", req[p].finalText)
       \/ /\ calls' = Called(p, <<"session_upsert_error">>)
          /\ sessions' = sessions
    /\ req' = ReturnFromResponder(p, ResultOf(TRUE, "undefined", ""))
    /\ UNCHANGED <<otherVars, impl, phoneCfg, messages, sends, nEvents>>

---------------------------------------------------------------------------
(* generateAutoResponse, RAG variant: src/src/lib/autoResponder.ts 48-253 *)

Fail(error) == ResultOf(FALSE, "undefined", error)

\* 1. `const fileIds = await getFilesForPhoneNumber(toNumber)`: the file ids,
\* none, or a throw that the catch turns into a failed result
RagFiles(p) ==
    /\ req[p].pc = "rag_files"
    /\ calls' = Called(p, <<"files">>)
    /\ \/ req' = IF phoneCfg = "nofiles"
                   THEN ReturnFromResponder(p,
                            Fail("No documents mapped to this business number"))
                   ELSE [req EXCEPT ![p].pc = "rag_config"]
       \/ req' = ReturnFromResponder(p, Fail("thrown"))
    /\ UNCHANGED <<otherVars, impl, phoneCfg, messages, sessions, sends, nEvents>>

\* a configuration step that would go on without the credentials
ConfiguredSkippingCredentials(p, failed) ==
    LET text == Trim(req[p].finalUserText)
    IN  IF failed
          THEN ReturnFromResponder(p, Fail("Phone configuration not found"))
        ELSE IF ~Truthy(text) /\ req[p].mediaUrl
          THEN [req EXCEPT ![p].pc = "rag_stt"]
        ELSE IF ~Truthy(text)
          THEN ReturnFromResponder(p, Fail("Empty user message"))
        ELSE [req EXCEPT ![p].pc = "rag_detect", ![p].finalText = text]
\* what follows the select of the phone configuration: `if (mappingError ||
\* !phoneMappings || phoneMappings.length === 0)`, the credentials test, 3. the
\* normalized input, up to the next await.  A text that is empty without a
\* mediaUrl skips both language branches and fails the empty-message test.
Configured(p, failed) ==
    LET text == Trim(req[p].finalUserText)
    IN  IF failed
          THEN ReturnFromResponder(p, Fail("Phone configuration not found"))
        ELSE IF phoneCfg = "nocreds"
          THEN ReturnFromResponder(p, Fail("WhatsApp API credentials missing"))
        ELSE IF ~Truthy(text) /\ req[p].mediaUrl
          THEN [req EXCEPT ![p].pc = "rag_stt"]
        ELSE IF ~Truthy(text)
          THEN ReturnFromResponder(p, Fail("Empty user message"))
        ELSE [req EXCEPT ![p].pc = "rag_detect", ![p].finalText = text]

\* 2. the select on phone_document_mapping, which gives the rows or an error
RagConfig(p) ==
    /\ req[p].pc = "rag_config"
    /\ \E failed \in BOOLEAN :
         /\ calls' = Called(p, IF failed THEN <<"config_error">> ELSE <<"config">>)
         /\ req' = Configured(p, failed)
    /\ SpeechStarts(p)
    /\ UNCHANGED <<detect, stream, mappings, ragFiles, setreq, files, clock,
                   impl, phoneCfg, messages, sessions, sends, nEvents>>

\* the voice branch: speechToText gives null, or { text, language } with a
\* text that is not empty and a language, so that `transcriptObj.language ||
\* (await detectLanguage(...))` awaits nothing and `if (finalUserText)` is taken
RagStt(p) ==
    /\ req[p].pc = "rag_stt"
    /\ SpeechReturns(p)
    /\ calls' = Called(p, <<"speech_to_text">>)
    /\ \E t \in Heard(p) :
         req' = IF ~Truthy(t)
                  THEN ReturnFromResponder(p, Fail("Failed to transcribe voice message"))
                  ELSE [req EXCEPT ![p].pc = "rag_detect", ![p].finalText = t]
    /\ UNCHANGED <<detect, stream, mappings, ragFiles, setreq, clock,
                   impl, phoneCfg, messages, sessions, sends, nEvents>>

\* `if (finalUserText) detectedLanguage = await detectLanguage(finalUserText)`,
\* which never throws; after it the empty-message test
RagDetect(p) ==
    /\ req[p].pc = "rag_detect"
    /\ calls' = Called(p, <<"detect_language">>)
    /\ req' = IF ~Truthy(Trim(req[p].finalText))
                THEN ReturnFromResponder(p, Fail("Empty user message"))
              ELSE [req EXCEPT ![p].pc = "rag_embed"]
    /\ UNCHANGED <<otherVars, impl, phoneCfg, messages, sessions, sends, nEvents>>

\* 4. `const queryEmbedding = await embedText(finalUserText)`: a vector, null,
\* or a throw
RagEmbed(p) ==
    /\ req[p].pc = "rag_embed"
    /\ calls' = Called(p, <<"embed">>)
    /\ \/ req' = [req EXCEPT ![p].pc = "rag_retrieve"]
       \/ req' = ReturnFromResponder(p, Fail("Failed to embed query"))
       \/ req' = ReturnFromResponder(p, Fail("thrown"))
    /\ UNCHANGED <<otherVars, impl, phoneCfg, messages, sessions, sends, nEvents>>

\* `await retrieveRelevantChunksFromFiles(queryEmbedding, fileIds, 5)` on one
\* of the rank lists `indexes`, and contextText; the call may throw
RagRetrieve(p, indexes) ==
    /\ req[p].pc = "rag_retrieve"
    /\ calls' = Called(p, <<"retrieve">>)
    /\ \/ \E index \in indexes :
            req' = [req EXCEPT ![p].pc = "rag_history",
                      ![p].contextText = JoinChunks(Retrieve(index, TopK))]
       \/ req' = ReturnFromResponder(p, Fail("thrown"))
    /\ UNCHANGED <<otherVars, impl, phoneCfg, messages, sessions, sends, nEvents>>

\* the rows of the history query, as their positions in the table:
\* .or(from_number.eq.X, to_number.eq.X)
OfUser(rows, user) ==
    {i \in 1..Len(rows) : rows[i].from_number = user \/ rows[i].to_number = user}
\* .order("received_at", { ascending: true }): the rows that have a time by
\* their times, then the rows whose received_at is NULL; rows that have the
\* same time, and the NULL rows, come in an order the store chooses
RECURSIVE ByTime(_, _)
Before(rows, j, i) ==
    /\ rows[j].received_at # Null
    /\ rows[i].received_at = Null \/ rows[j].received_at < rows[i].received_at
Orderings(S) ==
    {f \in [1..Cardinality(S) -> S] :
        \A a, b \in 1..Cardinality(S) : a # b => f[a] # f[b]}
ByTime(rows, S) ==
    IF S = {} THEN {<<>>}
    ELSE LET first == {i \in S : \A j \in S : ~Before(rows, j, i)}
         IN  {f \o rest : f \in Orderings(first), rest \in ByTime(rows, S \ first)}
HistoryOrders(rows, user) == ByTime(rows, OfUser(rows, user))
\* .limit(limit), and then .filter(m => m.content_text)
HistoryRows(rows, order, limit) ==
    LET lim == SubSeq(order, 1, IF Len(order) < limit THEN Len(order) ELSE limit)
    IN  SelectSeq(lim, LAMBDA i : Truthy(rows[i].content_text))

\* 5. the conversation history query on whatsapp_messages; when the query
\* fails, `historyRows || []` is the empty history
RagHistory(p) ==
    /\ req[p].pc = "rag_history"
    /\ \/ /\ calls' = Called(p, <<"history">>)
          /\ \E order \in HistoryOrders(messages, req[p].payload.from) :
               req' = [req EXCEPT ![p].pc = "rag_llm",
                         ![p].history = HistoryRows(messages, order, HistoryLimit)]
       \/ /\ calls' = Called(p, <<"history_error">>)
          /\ req' = [req EXCEPT ![p].pc = "rag_llm", ![p].history = <<>>]
    /\ UNCHANGED <<otherVars, impl, phoneCfg, messages, sessions, sends, nEvents>>

\* the messages of the generation request: the system prompt with the context
\* block, ...history.slice(-10), and the user text
GenerationRequest(p) ==
    [system |-> ContextOrPlaceholder(req[p].contextText),
     history |-> LastN(req[p].history, HistorySlice),
     user |-> req[p].finalText]

\* what follows the generation call: a content, an empty content, a throw
AfterGenerationRetrying(p, outcome) ==
    CASE outcome = "content" -> [req EXCEPT ![p].pc = "rag_send", ![p].reply = LlmReply]
      [] outcome = "empty"   -> ReturnFromResponder(p, Fail("LLM returned empty response"))
      [] outcome = "throw"   -> req
AfterGenerationRaising(p, outcome) ==
    CASE outcome = "content" -> [req EXCEPT ![p].pc = "rag_send", ![p].reply = LlmReply]
      [] outcome = "empty"   -> ReturnFromResponder(p, Fail("LLM returned empty response"))
      [] outcome = "throw"   -> Respond(p, Json500)
AfterGeneration(p, outcome) ==
    CASE outcome = "content" -> [req EXCEPT ![p].pc = "rag_send", ![p].reply = LlmReply]
      [] outcome = "empty"   -> ReturnFromResponder(p, Fail("LLM returned empty response"))
      [] outcome = "throw"   -> ReturnFromResponder(p, Fail("thrown"))

\* 7. groq.chat.completions.create, called once; an empty content is a failure
RagLlm(p) ==
    /\ req[p].pc = "rag_llm"
    /\ calls' = Called(p, <<"generate">>)
    /\ \E outcome \in {"content", "empty", "throw"} : req' = AfterGeneration(p, outcome)
    /\ UNCHANGED <<otherVars, impl, phoneCfg, messages, sessions, sends, nEvents>>

\* 8. send the reply; !sendResult.success returns { success: false, sent: false }.
\* When the send has succeeded the row of the AI response is built, with
\* received_at: new Date(), and its insert is issued.
RagSend(p) ==
    /\ req[p].pc = "rag_send"
    /\ calls' = Called(p, <<"send">>)
    /\ \E o \in SendOutcomes :
         /\ sends' = Sent(p, req[p].reply, o)
         /\ req' = CASE o = "ok"    -> [req EXCEPT ![p].pc = "rag_save",
                                                   ![p].replyAt = ServerTime]
                     [] o = "fail"  -> ReturnFromResponder(p,
                                          ResultOf(FALSE, "false", "send failed"))
                     [] o = "throw" -> ReturnFromResponder(p, Fail("thrown"))
    /\ UNCHANGED <<otherVars, impl, phoneCfg, messages, sessions, nEvents>>

\* the row of an AI response, with the received_at the variant gives it
OutboundRow(p, sentFlag, time) ==
    [message_id |-> AutoId(req[p].payload.messageId),
     from_number |-> req[p].payload.to, to_number |-> req[p].payload.from,
     content_text |-> req[p].reply, event_type |-> "MtMessage",
     received_at |-> time, auto_respond_sent |-> sentFlag]

\* what follows the insert of the AI response: its result is not looked at
AfterReplyInsert(p, failed) == [req EXCEPT ![p].pc = "rag_mark"]

\* 9. the insert of the AI response ends: the MtMessage row built after the
\* send is stored; the client reports a failed insert in the result it
\* returns, and the row is then not stored
RagSaveReply(p) ==
    /\ req[p].pc = "rag_save"
    /\ \/ /\ calls' = Called(p, <<"insert_reply">>)
          /\ messages' = Append(messages, OutboundRow(p, FALSE, req[p].replyAt))
          /\ req' = AfterReplyInsert(p, FALSE)
       \/ /\ calls' = Called(p, <<"insert_reply_error">>)
          /\ messages' = messages
          /\ req' = AfterReplyInsert(p, TRUE)
    /\ UNCHANGED <<otherVars, impl, phoneCfg, sessions, sends, nEvents>>

\* an update that would also rewrite the text of the row
MarkRespondedClearingText(mid) ==
    [i \in 1..Len(messages) |->
        IF messages[i].message_id = mid
          THEN [messages[i] EXCEPT !.auto_respond_sent = TRUE, !.content_text = NoText]
          ELSE messages[i]]
\* update({auto_respond_sent: true}).eq("message_id", messageId)
MarkResponded(mid) ==
    [i \in 1..Len(messages) |->
        IF messages[i].message_id = mid
          THEN [messages[i] EXCEPT !.auto_respond_sent = TRUE]
          ELSE messages[i]]

\* 10. mark the original message responded, return { success: true, sent: true };
\* the result of the update is not looked at, and a failed update changes no row
RagMark(p) ==
    /\ req[p].pc = "rag_mark"
    /\ \/ /\ calls' = Called(p, <<"mark_responded">>)
          /\ messages' = MarkResponded(InboundId(req[p].payload.messageId))
       \/ /\ calls' = Called(p, <<"mark_responded_error">>)
          /\ messages' = messages
    /\ req' = ReturnFromResponder(p, ResultOf(TRUE, "true", ""))
    /\ UNCHANGED <<otherVars, impl, phoneCfg, sessions, sends, nEvents>>

---------------------------------------------------------------------------
(* generateAutoResponse, variant without the empty-embedding test:         *)
(* src/unnamed/part_001 76-238.  Its steps from the retrieval on            *)
(* (132-229) are those of the RAG variant.                                  *)

\* 1. getFilesForPhoneNumber
BasFiles(p) ==
    /\ req[p].pc = "bas_files"
    /\ calls' = Called(p, <<"files">>)
    /\ \/ req' = IF phoneCfg = "nofiles"
                   THEN ReturnFromResponder(p,
                            Fail("No documents mapped to this business number"))
                   ELSE [req EXCEPT ![p].pc = "bas_config"]
       \/ req' = ReturnFromResponder(p, Fail("thrown"))
    /\ UNCHANGED <<otherVars, impl, phoneCfg, messages, sessions, sends, nEvents>>

\* 2. the phone config: only `data` is read, so a failed select is no mapping;
\* 3. `finalUserText = messageText || ""`, untrimmed; the voice branch, or else
\* detectLanguage whatever the text
BasConfig(p) ==
    /\ req[p].pc = "bas_config"
    /\ \E failed \in BOOLEAN :
         /\ calls' = Called(p, IF failed THEN <<"config_error">> ELSE <<"config">>)
         /\ req' = IF failed
                     THEN ReturnFromResponder(p, Fail("Phone mapping not found"))
                   ELSE IF phoneCfg = "nocreds"
                     THEN ReturnFromResponder(p, Fail("WhatsApp API credentials missing"))
                   ELSE IF ~Truthy(req[p].finalUserText) /\ req[p].mediaUrl
                     THEN [req EXCEPT ![p].pc = "bas_stt"]
                   ELSE [req EXCEPT ![p].pc = "bas_detect",
                            ![p].finalText = req[p].finalUserText]
    /\ SpeechStarts(p)
    /\ UNCHANGED <<detect, stream, mappings, ragFiles, setreq, files, clock,
                   impl, phoneCfg, messages, sessions, sends, nEvents>>

\* `if (!finalUserText.trim()) return "Empty user message"`
BasChecked(p, text) ==
    IF ~Truthy(Trim(text))
      THEN ReturnFromResponder(p, Fail("Empty user message"))
      ELSE [req EXCEPT ![p].pc = "bas_embed", ![p].finalText = text]

\* the speechToText of this file (30-52): it throws when the download or the
\* transcription fails, and gives `transcription.text || ""` otherwise
BasStt(p) ==
    /\ req[p].pc = "bas_stt"
    /\ SpeechReturns(p)
    /\ calls' = Called(p, <<"speech_to_text">>)
    /\ IF stt'[SlotOf(p)].result = 0
         THEN req' = ReturnFromResponder(p, Fail(stt'[SlotOf(p)].error))
         ELSE \E t \in Heard(p) : req' = BasChecked(p, t)
    /\ UNCHANGED <<detect, stream, mappings, ragFiles, setreq, clock,
                   impl, phoneCfg, messages, sessions, sends, nEvents>>

\* the detectLanguage of this file (57-71), which has no catch of its own
BasDetect(p) ==
    /\ req[p].pc = "bas_detect"
    /\ calls' = Called(p, <<"detect_language">>)
    /\ \/ req' = BasChecked(p, req[p].finalText)
       \/ req' = ReturnFromResponder(p, Fail("thrown"))
    /\ UNCHANGED <<otherVars, impl, phoneCfg, messages, sessions, sends, nEvents>>

\* 4. embedText: a vector or null, which is passed on unchecked, or a throw
BasEmbed(p) ==
    /\ req[p].pc = "bas_embed"
    /\ calls' = Called(p, <<"embed">>)
    /\ \/ req' = [req EXCEPT ![p].pc = "rag_retrieve"]
       \/ req' = ReturnFromResponder(p, Fail("thrown"))
    /\ UNCHANGED <<otherVars, impl, phoneCfg, messages, sessions, sends, nEvents>>

---------------------------------------------------------------------------
(* generateAutoResponse, variant with the already-responded guard:         *)
(* src/unnamed/part_000 54-232                                             *)

GrdResult(success, sent, error) == ResultOf(success, sent, error)
GrdFail(error) == GrdResult(FALSE, "false", error)

RowSent(mid) ==
    \E i \in 1..Len(messages) :
        messages[i].message_id = mid /\ messages[i].auto_respond_sent

\* stop if the message is already marked responded; a read that fails gives
\* no row (`existing` is null), and the responder goes on
GrdCheck(p) ==
    /\ req[p].pc = "grd_check"
    /\ \E failed \in BOOLEAN :
         /\ calls' = Called(p, IF failed THEN <<"responded_read_error">>
                                         ELSE <<"responded_read">>)
         /\ req' = IF ~failed /\ RowSent(InboundId(req[p].payload.messageId))
                     THEN ReturnFromResponder(p, GrdResult(TRUE, "false", ""))
                     ELSE [req EXCEPT ![p].pc = "grd_files"]
    /\ UNCHANGED <<otherVars, impl, phoneCfg, messages, sessions, sends, nEvents>>

\* 1. files
GrdFiles(p) ==
    /\ req[p].pc = "grd_files"
    /\ calls' = Called(p, <<"files">>)
    /\ \/ req' = IF phoneCfg = "nofiles"
                   THEN ReturnFromResponder(p, GrdFail("No information available"))
                   ELSE [req EXCEPT ![p].pc = "grd_config"]
       \/ req' = ReturnFromResponder(p, GrdFail("Auto response failed"))
    /\ UNCHANGED <<otherVars, impl, phoneCfg, messages, sessions, sends, nEvents>>

\* 2. phone config: `if (!mapping?.auth_token || !mapping?.origin)`, where a
\* failed select gives no mapping; 3. user text, with no empty-text test
GrdConfig(p) ==
    /\ req[p].pc = "grd_config"
    /\ \E failed \in BOOLEAN :
         /\ calls' = Called(p, IF failed THEN <<"config_error">> ELSE <<"config">>)
         /\ req' = IF failed \/ phoneCfg = "nocreds"
                     THEN ReturnFromResponder(p, GrdFail("WhatsApp credentials missing"))
                   ELSE IF ~Truthy(Trim(req[p].finalUserText)) /\ req[p].mediaUrl
                     THEN [req EXCEPT ![p].pc = "grd_stt"]
                   ELSE [req EXCEPT ![p].pc = "grd_detect",
                            ![p].finalText = Trim(req[p].finalUserText)]
    /\ SpeechStarts(p)
    /\ UNCHANGED <<detect, stream, mappings, ragFiles, setreq, files, clock,
                   impl, phoneCfg, messages, sessions, sends, nEvents>>

\* the voice branch: speechToText gives { text, language } or null
GrdStt(p) ==
    /\ req[p].pc = "grd_stt"
    /\ SpeechReturns(p)
    /\ calls' = Called(p, <<"speech_to_text">>)
    /\ \E t \in Heard(p) :
         req' = IF ~Truthy(t)
                  THEN ReturnFromResponder(p, GrdFail("Voice transcription failed"))
                  ELSE [req EXCEPT ![p].pc = "grd_detect", ![p].finalText = t]
    /\ UNCHANGED <<detect, stream, mappings, ragFiles, setreq, clock,
                   impl, phoneCfg, messages, sessions, sends, nEvents>>

\* `language = await detectLanguage(userText)`, which never throws
GrdDetect(p) ==
    /\ req[p].pc = "grd_detect"
    /\ calls' = Called(p, <<"detect_language">>)
    /\ req' = [req EXCEPT ![p].pc = "grd_embed"]
    /\ UNCHANGED <<otherVars, impl, phoneCfg, messages, sessions, sends, nEvents>>

\* 4. embedText: a vector, null, or a throw
GrdEmbed(p) ==
    /\ req[p].pc = "grd_embed"
    /\ calls' = Called(p, <<"embed">>)
    /\ \/ req' = [req EXCEPT ![p].pc = "grd_retrieve"]
       \/ req' = ReturnFromResponder(p, GrdFail("Embedding failed"))
       \/ req' = ReturnFromResponder(p, GrdFail("Auto response failed"))
    /\ UNCHANGED <<otherVars, impl, phoneCfg, messages, sessions, sends, nEvents>>

\* retrieveRelevantChunksFromFiles(embedding, fileIds, 5)
GrdRetrieve(p) ==
    /\ req[p].pc = "grd_retrieve"
    /\ calls' = Called(p, <<"retrieve">>)
    /\ \/ req' = [req EXCEPT ![p].pc = "grd_llm"]
       \/ req' = ReturnFromResponder(p, GrdFail("Auto response failed"))
    /\ UNCHANGED <<otherVars, impl, phoneCfg, messages, sessions, sends, nEvents>>

\* 6. groq.chat.completions.create; an empty content is a failure
GrdLlm(p) ==
    /\ req[p].pc = "grd_llm"
    /\ calls' = Called(p, <<"generate">>)
    /\ \/ req' = [req EXCEPT ![p].pc = "grd_send", ![p].reply = LlmReply]
       \/ req' = ReturnFromResponder(p, GrdFail("Empty AI response"))
       \/ req' = ReturnFromResponder(p, GrdFail("Auto response failed"))
    /\ UNCHANGED <<otherVars, impl, phoneCfg, messages, sessions, sends, nEvents>>

\* 7. await sendWhatsAppMessage(...): the result is dropped, a throw is caught
GrdSend(p) ==
    /\ req[p].pc = "grd_send"
    /\ calls' = Called(p, <<"send">>)
    /\ \E o \in SendOutcomes :
         /\ sends' = Sent(p, req[p].reply, o)
         /\ req' = IF o = "throw"
                     THEN ReturnFromResponder(p, GrdFail("Auto response failed"))
                     ELSE [req EXCEPT ![p].pc = "grd_save"]
    /\ UNCHANGED <<otherVars, impl, phoneCfg, messages, sessions, nEvents>>

\* 8. save the AI message, itself flagged auto_respond_sent and without a
\* received_at; the insert of a message_id already there is rejected, as any
\* insert may be, and the error is not looked at
GrdSaveReply(p) ==
    /\ req[p].pc = "grd_save"
    /\ \/ /\ ~HasMessage(AutoId(req[p].payload.messageId))
          /\ calls' = Called(p, <<"insert_reply">>)
          /\ messages' = Append(messages, OutboundRow(p, TRUE, Null))
       \/ /\ calls' = Called(p, <<"insert_reply_error">>)
          /\ messages' = messages
    /\ req' = [req EXCEPT ![p].pc = "grd_mark"]
    /\ UNCHANGED <<otherVars, impl, phoneCfg, sessions, sends, nEvents>>

\* 9. mark the original, return { success: true, sent: true }; the result of
\* the update is not looked at
GrdMark(p) ==
    /\ req[p].pc = "grd_mark"
    /\ \/ /\ calls' = Called(p, <<"mark_responded">>)
          /\ messages' = MarkResponded(InboundId(req[p].payload.messageId))
       \/ /\ calls' = Called(p, <<"mark_responded_error">>)
          /\ messages' = messages
    /\ req' = ReturnFromResponder(p, GrdResult(TRUE, "true", ""))
    /\ UNCHANGED <<otherVars, impl, phoneCfg, sessions, sends, nEvents>>

---------------------------------------------------------------------------
(* generateAutoResponse, variant with the name greeting:                   *)
(* src/src/lib/language.ts 73-246                                          *)

GrtFail(error) == ResultOf(FALSE, "undefined", error)

\* 1. files
GrtFiles(p) ==
    /\ req[p].pc = "grt_files"
    /\ calls' = Called(p, <<"files">>)
    /\ \/ req' = IF phoneCfg = "nofiles"
                   THEN ReturnFromResponder(p, GrtFail("noDocuments"))
                   ELSE [req EXCEPT ![p].pc = "grt_config"]
       \/ req' = ReturnFromResponder(p, GrtFail("thrown"))
    /\ UNCHANGED <<otherVars, impl, phoneCfg, messages, sessions, sends, nEvents>>

\* 2. phone config: `if (!phoneMappings?.length)`, where a failed select gives
\* no rows; 3. user text; the voice branch needs the mediaUrl argument
GrtConfig(p) ==
    /\ req[p].pc = "grt_config"
    /\ \E failed \in BOOLEAN :
         /\ calls' = Called(p, IF failed THEN <<"config_error">> ELSE <<"config">>)
         /\ LET text == Trim(req[p].finalUserText)
            IN req' = IF failed
                        THEN ReturnFromResponder(p, GrtFail("Phone config missing"))
                      ELSE IF phoneCfg = "nocreds"
                        THEN ReturnFromResponder(p, GrtFail("WhatsApp credentials missing"))
                      ELSE IF ~Truthy(text) /\ req[p].mediaUrl
                        THEN [req EXCEPT ![p].pc = "grt_stt"]
                      ELSE IF ~Truthy(text)
                        THEN ReturnFromResponder(p, GrtFail("Empty message"))
                      ELSE [req EXCEPT ![p].pc = "grt_embed", ![p].finalText = text]
    /\ SpeechStarts(p)
    /\ UNCHANGED <<detect, stream, mappings, ragFiles, setreq, files, clock,
                   impl, phoneCfg, messages, sessions, sends, nEvents>>

\* the voice branch: speechToText gives { text, language } or null
GrtStt(p) ==
    /\ req[p].pc = "grt_stt"
    /\ SpeechReturns(p)
    /\ calls' = Called(p, <<"speech_to_text">>)
    /\ \E t \in Heard(p) :
         req' = IF ~Truthy(t)
                  THEN ReturnFromResponder(p, GrtFail("Voice transcription failed"))
                  ELSE [req EXCEPT ![p].pc = "grt_embed", ![p].finalText = t]
    /\ UNCHANGED <<detect, stream, mappings, ragFiles, setreq, clock,
                   impl, phoneCfg, messages, sessions, sends, nEvents>>

\* 4. embedText: a vector, null, or a throw
GrtEmbed(p) ==
    /\ req[p].pc = "grt_embed"
    /\ calls' = Called(p, <<"embed">>)
    /\ \/ req' = [req EXCEPT ![p].pc = "grt_retrieve"]
       \/ req' = ReturnFromResponder(p, GrtFail("Embedding failed"))
       \/ req' = ReturnFromResponder(p, GrtFail("thrown"))
    /\ UNCHANGED <<otherVars, impl, phoneCfg, messages, sessions, sends, nEvents>>

\* retrieveRelevantChunksFromFiles(queryEmbedding, fileIds, 6)
GrtRetrieve(p, indexes) ==
    /\ req[p].pc = "grt_retrieve"
    /\ calls' = Called(p, <<"retrieve">>)
    /\ \/ \E index \in indexes :
            req' = [req EXCEPT ![p].pc = "grt_history",
                      ![p].contextText = JoinChunks(Retrieve(index, GreetingTopK))]
       \/ req' = ReturnFromResponder(p, GrtFail("thrown"))
    /\ UNCHANGED <<otherVars, impl, phoneCfg, messages, sessions, sends, nEvents>>

\* 5. the history query, limit 15; `historyRows || []` when it fails
GrtHistory(p) ==
    /\ req[p].pc = "grt_history"
    /\ \/ /\ calls' = Called(p, <<"history">>)
          /\ \E order \in HistoryOrders(messages, req[p].payload.from) :
               req' = [req EXCEPT ![p].pc = "grt_llm",
                         ![p].history =
                             HistoryRows(messages, order, GreetingHistoryLimit)]
       \/ /\ calls' = Called(p, <<"history_error">>)
          /\ req' = [req EXCEPT ![p].pc = "grt_llm", ![p].history = <<>>]
    /\ UNCHANGED <<otherVars, impl, phoneCfg, messages, sessions, sends, nEvents>>

\* 9. the name greeting: if (history.length === 0 && userName), where
\* userName = cleanUserName(senderName)
GreetedReply(history, senderName, reply) ==
    IF Len(history) = 0 /\ Truthy(CleanUserName(senderName))
      THEN GreetingPrefix(CleanUserName(senderName)) \o reply
      ELSE reply

\* 8. groq.chat.completions.create; an empty content is a failure; 9. greeting
GrtLlm(p) ==
    /\ req[p].pc = "grt_llm"
    /\ calls' = Called(p, <<"generate">>)
    /\ \/ req' = [req EXCEPT ![p].pc = "grt_send",
                    ![p].reply = GreetedReply(req[p].history, req[p].senderName, LlmReply)]
       \/ req' = ReturnFromResponder(p, GrtFail("Empty AI response"))
       \/ req' = ReturnFromResponder(p, GrtFail("thrown"))
    /\ UNCHANGED <<otherVars, impl, phoneCfg, messages, sessions, sends, nEvents>>

\* 10. send the reply; !sendResult.success returns { success: false }.  When
\* the send has succeeded the row of the bot message is built, with
\* received_at: new Date(), and its insert is issued.
GrtSend(p) ==
    /\ req[p].pc = "grt_send"
    /\ calls' = Called(p, <<"send">>)
    /\ \E o \in SendOutcomes :
         /\ sends' = Sent(p, req[p].reply, o)
         /\ req' = CASE o = "ok"    -> [req EXCEPT ![p].pc = "grt_save",
                                                   ![p].replyAt = ServerTime]
                     [] o = "fail"  -> ReturnFromResponder(p, GrtFail("send failed"))
                     [] o = "throw" -> ReturnFromResponder(p, GrtFail("thrown"))
    /\ UNCHANGED <<otherVars, impl, phoneCfg, messages, sessions, nEvents>>

\* 11. the insert of the bot message ends: the row built after the send is
\* stored or not (the result of the insert is not looked at), return
\* { success: true, sent: true }
GrtSaveReply(p) ==
    /\ req[p].pc = "grt_save"
    /\ \/ /\ calls' = Called(p, <<"insert_reply">>)
          /\ messages' = Append(messages, OutboundRow(p, FALSE, req[p].replyAt))
       \/ /\ calls' = Called(p, <<"insert_reply_error">>)
          /\ messages' = messages
    /\ req' = ReturnFromResponder(p, ResultOf(TRUE, "true", ""))
    /\ UNCHANGED <<otherVars, impl, phoneCfg, sessions, sends, nEvents>>

---------------------------------------------------------------------------
(* Specifications *)

InitRag == InitCommon /\ impl = "rag"

Next ==
    \E p \in Procs :
        \/ Receive(p, MaxEvents) \/ Transcribe(p) \/ Insert(p)
        \/ RagFiles(p) \/ RagConfig(p) \/ RagDetect(p) \/ RagEmbed(p)
        \/ RagRetrieve(p, OneChunkIndex) \/ RagHistory(p) \/ RagLlm(p)
        \/ RagSend(p) \/ RagSaveReply(p) \/ RagMark(p)

Spec == InitRag /\ [][Next]_vars

\* one turn of the RAG variant on a store that holds an earlier conversation,
\* with every rank list of the knowledge index
InitTurn ==
    /\ impl = "rag"
    /\ phoneCfg \in PhoneCfgs
    /\ messages \in PriorStores
    /\ sessions = [k \in ConvKeys |-> NoSession]
    /\ sends = [i \in MsgIds |-> <<>>]
    /\ req = [p \in Procs |-> IdleReq]
    /\ calls = [p \in Procs |-> <<>>]
    /\ nEvents = 0
    /\ OthersIdle

NextTurn ==
    \E p \in Procs :
        \/ Receive(p, 1) \/ Transcribe(p) \/ Insert(p)
        \/ RagFiles(p) \/ RagConfig(p) \/ RagDetect(p) \/ RagEmbed(p)
        \/ RagRetrieve(p, KnowledgeIndexes) \/ RagHistory(p) \/ RagLlm(p)
        \/ RagSend(p) \/ RagSaveReply(p) \/ RagMark(p)

SpecTurn == InitTurn /\ [][NextTurn]_vars

\* the webhook route linked with the variant of src/unnamed/part_001
InitBasic == InitCommon /\ impl = "basic"

NextBasic ==
    \E p \in Procs :
        \/ Receive(p, MaxEvents) \/ Transcribe(p) \/ Insert(p)
        \/ BasFiles(p) \/ BasConfig(p) \/ BasDetect(p) \/ BasEmbed(p)
        \/ RagRetrieve(p, OneChunkIndex) \/ RagHistory(p) \/ RagLlm(p)
        \/ RagSend(p) \/ RagSaveReply(p) \/ RagMark(p)

SpecBasic == InitBasic /\ [][NextBasic]_vars

InitGuard == InitCommon /\ impl = "guard"

NextGuard ==
    \E p \in Procs :
        \/ Receive(p, MaxEvents) \/ Transcribe(p) \/ Insert(p)
        \/ GrdCheck(p) \/ GrdFiles(p) \/ GrdConfig(p) \/ GrdDetect(p)
        \/ GrdEmbed(p) \/ GrdRetrieve(p) \/ GrdLlm(p)
        \/ GrdSend(p) \/ GrdSaveReply(p) \/ GrdMark(p)

SpecGuard == InitGuard /\ [][NextGuard]_vars

InitSession == InitCommon /\ impl = "session" /\ phoneCfg # "nocreds"

NextSession ==
    \E p \in Procs :
        \/ Receive(p, MaxEvents) \/ Insert(p)
        \/ SesRead(p) \/ SesStop(p) \/ SesStopSend(p) \/ SesFiles(p)
        \/ SesNoFilesSend(p) \/ SesEmbed(p) \/ SesRetrieve(p) \/ SesLlm(p) \/ SesSend(p) \/ SesSave(p)

SpecSession == InitSession /\ [][NextSession]_vars

\* the session variant with one more request, for traces of three turns
NextSessionLong ==
    \E p \in Procs :
        \/ Receive(p, MaxEvents + 1) \/ Insert(p)
        \/ SesRead(p) \/ SesStop(p) \/ SesStopSend(p) \/ SesFiles(p)
        \/ SesNoFilesSend(p) \/ SesEmbed(p) \/ SesRetrieve(p) \/ SesLlm(p) \/ SesSend(p) \/ SesSave(p)

SpecSessionLong == InitSession /\ [][NextSessionLong]_vars

\* generateAutoResponse of the session variant called with its five
\* parameters, the mediaUrl included: fromNumber, toNumber, messageText,
\* messageId, mediaUrl
ResponderArgs(id) ==
    [messageId : {id}, from : {User}, to : {Business}, contentType : {"text", "audio"},
     text : IF impl = "greeting" THEN {U_hello, NoText}
            ELSE {U_hello, U_Know, U_vr, U_blank, NoText},
     UserResponse : {NoText}, mediaUrl : BOOLEAN, event : {"MoMessage"},
     receivedAt : {Stamp(id)},
     senderName : IF impl = "greeting" THEN SenderNames ELSE {NoText}]

Call(p) ==
    /\ req[p].pc \in {"idle", "done"}
    /\ \A q \in Procs : q < p => req[q].pc \notin {"idle", "done"}
    /\ nEvents < MaxEvents
    /\ nEvents' = nEvents + 1
    /\ calls' = [calls EXCEPT ![p] = <<>>]
    /\ \E a \in ResponderArgs(nEvents + 1) :
         /\ a.contentType = "audio" <=> a.mediaUrl
         /\ req' = [req EXCEPT ![p] =
                      [IdleReq EXCEPT !.payload = a, !.finalUserText = a.text,
                                      !.mediaUrl = a.mediaUrl,
                                      !.senderName = a.senderName,
                                      !.pc = ResponderEntry]]
    /\ UNCHANGED <<otherVars, impl, phoneCfg, messages, sessions, sends>>

\* the webhook route linked with the greeting variant
InitGreeting == InitCommon /\ impl = "greeting"

NextGreetingHook ==
    \E p \in Procs :
        \/ Receive(p, MaxEvents) \/ Transcribe(p) \/ Insert(p)
        \/ GrtFiles(p) \/ GrtConfig(p) \/ GrtEmbed(p)
        \/ GrtRetrieve(p, OneChunkIndex) \/ GrtHistory(p) \/ GrtLlm(p)
        \/ GrtSend(p) \/ GrtSaveReply(p)

SpecGreetingHook == InitGreeting /\ [][NextGreetingHook]_vars

\* generateAutoResponse of the greeting variant called with its six
\* parameters, mediaUrl and senderName included
NextGreeting ==
    \E p \in Procs :
        \/ Call(p) \/ Tick \/ SpeechAwait(p)
        \/ GrtFiles(p) \/ GrtConfig(p) \/ GrtStt(p) \/ GrtEmbed(p)
        \/ GrtRetrieve(p, OneChunkIndex) \/ GrtHistory(p)
        \/ GrtLlm(p) \/ GrtSend(p) \/ GrtSaveReply(p)

SpecGreeting == InitGreeting /\ [][NextGreeting]_vars

\* generateAutoResponse of the guard variant invoked for inbound messages that
\* are already stored, any number of times for the same message id and with
\* invocations that overlap: fromNumber, toNumber, messageText, messageId
StoredEvent(id) ==
    [IdlePayload EXCEPT !.messageId = id, !.from = User, !.to = Business,
                        !.text = U_hello, !.receivedAt = Stamp(id)]

Invoke(p) ==
    /\ req[p].pc \in {"idle", "done"}
    /\ \A q \in Procs : q < p => req[q].pc \notin {"idle", "done"}
    /\ nEvents < MaxEvents + 1
    /\ nEvents' = nEvents + 1
    /\ calls' = [calls EXCEPT ![p] = <<>>]
    /\ \E id \in 1..NProc :
         /\ id = 1 \/ HasMessage(InboundId(id - 1))
         /\ messages' = IF HasMessage(InboundId(id)) THEN messages
                        ELSE Append(messages, InboundRow(StoredEvent(id), U_hello))
         /\ req' = [req EXCEPT ![p] =
                      [IdleReq EXCEPT !.payload = StoredEvent(id),
                                      !.finalUserText = U_hello,
                                      !.pc = ResponderEntry]]
    /\ UNCHANGED <<otherVars, impl, phoneCfg, sessions, sends>>

NextInvocations ==
    \E p \in Procs :
        \/ Invoke(p)
        \/ GrdCheck(p) \/ GrdFiles(p) \/ GrdConfig(p) \/ GrdDetect(p)
        \/ GrdEmbed(p) \/ GrdRetrieve(p) \/ GrdLlm(p)
        \/ GrdSend(p) \/ GrdSaveReply(p) \/ GrdMark(p)

SpecInvocations == InitGuard /\ [][NextInvocations]_vars

\* generateAutoResponse of the RAG variant, of the guard variant and of the
\* variant of part_001 called with their five parameters, the mediaUrl included
InitCalls == InitCommon /\ impl \in {"rag", "guard", "basic"}

NextCalls ==
    \E p \in Procs :
        \/ Call(p) \/ Tick \/ SpeechAwait(p)
        \/ RagFiles(p) \/ RagConfig(p) \/ RagStt(p) \/ RagDetect(p) \/ RagEmbed(p)
        \/ RagRetrieve(p, OneChunkIndex) \/ RagHistory(p) \/ RagLlm(p)
        \/ RagSend(p) \/ RagSaveReply(p) \/ RagMark(p)
        \/ BasFiles(p) \/ BasConfig(p) \/ BasStt(p) \/ BasDetect(p) \/ BasEmbed(p)
        \/ GrdCheck(p) \/ GrdFiles(p) \/ GrdConfig(p) \/ GrdStt(p) \/ GrdDetect(p)
        \/ GrdEmbed(p) \/ GrdRetrieve(p) \/ GrdLlm(p)
        \/ GrdSend(p) \/ GrdSaveReply(p) \/ GrdMark(p)

SpecCalls == InitCalls /\ [][NextCalls]_vars

\* generateAutoResponse of the session variant called with its five parameters
NextResponder ==
    \E p \in Procs :
        \/ Call(p) \/ Tick \/ SpeechAwait(p)
        \/ SesRead(p) \/ SesStt(p) \/ SesStop(p) \/ SesStopSend(p) \/ SesFiles(p)
        \/ SesNoFilesSend(p) \/ SesEmbed(p) \/ SesRetrieve(p) \/ SesLlm(p) \/ SesSend(p) \/ SesSave(p)

SpecResponder == InitSession /\ [][NextResponder]_vars

---------------------------------------------------------------------------
(* detectLanguage: src/src/lib/language.ts 11-37 and                       *)
(* src/src/lib/autoResponder.ts 24-43                                      *)

English == <<"e", "n", "g", "l", "i", "s", "h">>

\* what groq.chat.completions.create can come back with: a throw, no choice,
\* a choice whose content is null, or a content (the empty string included)
CompletionOutcomes == {"throw", "no_choice", "null", "content"}
\* The characters with the property Changes_When_Lowercased of the Unicode
\* character database: those below U+0100 written out, the others as runs
\* <<first, last, step>>.  A text is in lower case when it holds none of them.
CapitalLatin ==
    {"A", "B", "C", "D", "E", "F", "G", "H", "I", "J", "K", "L", "M", "N",
     "O", "P", "Q", "R", "S", "T", "U", "V", "W", "X", "Y", "Z", "À", "Á",
     "Â", "Ã", "Ä", "Å", "Æ", "Ç", "È", "É", "Ê", "Ë", "Ì", "Í", "Î", "Ï",
     "Ð", "Ñ", "Ò", "Ó", "Ô", "Õ", "Ö", "Ø", "Ù", "Ú", "Û", "Ü", "Ý", "Þ"}
CapitalRuns ==
    {<<\h0100, \h0136, 2>>, <<\h0139, \h0147, 2>>, <<\h014A, \h0178, 2>>,
     <<\h0179, \h017D, 2>>, <<\h0181, \h0182, 1>>, <<\h0184, \h0186, 2>>,
     <<\h0187, \h0189, 2>>, <<\h018A, \h018B, 1>>, <<\h018E, \h0191, 1>>,
     <<\h0193, \h0194, 1>>, <<\h0196, \h0198, 1>>, <<\h019C, \h019D, 1>>,
     <<\h019F, \h01A0, 1>>, <<\h01A2, \h01A6, 2>>, <<\h01A7, \h01A9, 2>>,
     <<\h01AC, \h01AE, 2>>, <<\h01AF, \h01B1, 2>>, <<\h01B2, \h01B3, 1>>,
     <<\h01B5, \h01B7, 2>>, <<\h01B8, \h01B8, 1>>, <<\h01BC, \h01BC, 1>>,
     <<\h01C4, \h01C5, 1>>, <<\h01C7, \h01C8, 1>>, <<\h01CA, \h01CB, 1>>,
     <<\h01CD, \h01DB, 2>>, <<\h01DE, \h01EE, 2>>, <<\h01F1, \h01F2, 1>>,
     <<\h01F4, \h01F6, 2>>, <<\h01F7, \h01F8, 1>>, <<\h01FA, \h0232, 2>>,
     <<\h023A, \h023B, 1>>, <<\h023D, \h023E, 1>>, <<\h0241, \h0243, 2>>,
     <<\h0244, \h0246, 1>>, <<\h0248, \h024E, 2>>, <<\h0370, \h0372, 2>>,
     <<\h0376, \h0376, 1>>, <<\h037F, \h037F, 1>>, <<\h0386, \h0388, 2>>,
     <<\h0389, \h038A, 1>>, <<\h038C, \h038E, 2>>, <<\h038F, \h0391, 2>>,
     <<\h0392, \h03A1, 1>>, <<\h03A3, \h03AB, 1>>, <<\h03CF, \h03CF, 1>>,
     <<\h03D8, \h03EE, 2>>, <<\h03F4, \h03F4, 1>>, <<\h03F7, \h03F9, 2>>,
     <<\h03FA, \h03FA, 1>>, <<\h03FD, \h042F, 1>>, <<\h0460, \h0480, 2>>,
     <<\h048A, \h04C0, 2>>, <<\h04C1, \h04CD, 2>>, <<\h04D0, \h052E, 2>>,
     <<\h0531, \h0556, 1>>, <<\h10A0, \h10C5, 1>>, <<\h10C7, \h10C7, 1>>,
     <<\h10CD, \h10CD, 1>>, <<\h13A0, \h13F5, 1>>, <<\h1C89, \h1C89, 1>>,
     <<\h1C90, \h1CBA, 1>>, <<\h1CBD, \h1CBF, 1>>, <<\h1E00, \h1E94, 2>>,
     <<\h1E9E, \h1EFE, 2>>, <<\h1F08, \h1F0F, 1>>, <<\h1F18, \h1F1D, 1>>,
     <<\h1F28, \h1F2F, 1>>, <<\h1F38, \h1F3F, 1>>, <<\h1F48, \h1F4D, 1>>,
     <<\h1F59, \h1F5F, 2>>, <<\h1F68, \h1F6F, 1>>, <<\h1F88, \h1F8F, 1>>,
     <<\h1F98, \h1F9F, 1>>, <<\h1FA8, \h1FAF, 1>>, <<\h1FB8, \h1FBC, 1>>,
     <<\h1FC8, \h1FCC, 1>>, <<\h1FD8, \h1FDB, 1>>, <<\h1FE8, \h1FEC, 1>>,
     <<\h1FF8, \h1FFC, 1>>, <<\h2126, \h2126, 1>>, <<\h212A, \h212B, 1>>,
     <<\h2132, \h2132, 1>>, <<\h2160, \h216F, 1>>, <<\h2183, \h2183, 1>>,
     <<\h24B6, \h24CF, 1>>, <<\h2C00, \h2C2F, 1>>, <<\h2C60, \h2C62, 2>>,
     <<\h2C63, \h2C64, 1>>, <<\h2C67, \h2C6D, 2>>, <<\h2C6E, \h2C70, 1>>,
     <<\h2C72, \h2C72, 1>>, <<\h2C75, \h2C75, 1>>, <<\h2C7E, \h2C80, 1>>,
     <<\h2C82, \h2CE2, 2>>, <<\h2CEB, \h2CED, 2>>, <<\h2CF2, \h2CF2, 1>>,
     <<\hA640, \hA66C, 2>>, <<\hA680, \hA69A, 2>>, <<\hA722, \hA72E, 2>>,
     <<\hA732, \hA76E, 2>>, <<\hA779, \hA77D, 2>>, <<\hA77E, \hA786, 2>>,
     <<\hA78B, \hA78D, 2>>, <<\hA790, \hA792, 2>>, <<\hA796, \hA7AA, 2>>,
     <<\hA7AB, \hA7AE, 1>>, <<\hA7B0, \hA7B4, 1>>, <<\hA7B6, \hA7C4, 2>>,
     <<\hA7C5, \hA7C7, 1>>, <<\hA7C9, \hA7CB, 2>>, <<\hA7CC, \hA7DC, 2>>,
     <<\hA7F5, \hA7F5, 1>>, <<\hFF21, \hFF3A, 1>>, <<\h10400, \h10427, 1>>,
     <<\h104B0, \h104D3, 1>>, <<\h10570, \h1057A, 1>>,
     <<\h1057C, \h1058A, 1>>, <<\h1058C, \h10592, 1>>,
     <<\h10594, \h10595, 1>>, <<\h10C80, \h10CB2, 1>>,
     <<\h10D50, \h10D65, 1>>, <<\h118A0, \h118BF, 1>>,
     <<\h16E40, \h16E5F, 1>>, <<\h16EA0, \h16EB8, 1>>,
     <<\h1E900, \h1E921, 1>>}
ChangesWhenLowercased ==
    CapitalLatin \cup {Tok(n) : n \in UNION {{r[1] + r[3] * k : k \in 0..((r[2] - r[1]) \div r[3])}
                                            : r \in CapitalRuns}}
IsLowerCase(text) == \A i \in 1..Len(text) : text[i] \notin ChangesWhenLowercased

\* The contents: every text of up to MaxContent characters of ContentChars,
\* and every capital on its own.  U+0130 lowers to two code units and U+03A3
\* to a final or a medial sigma; U+0295 is a letter without case after which
\* a sigma is medial; U+1C89 and U+16EA0 are capitals of Unicode 16 and 17.
ContentChars == {"H", "i", " ", "U+0130", "U+03A3", "U+0295", "U+1C89", "U+16EA0"}
Contents ==
    UNION {[1..n -> ContentChars] : n \in 0..MaxContent}
      \cup {<<c>> : c \in ChangesWhenLowercased}

\* a result that would keep the case of the content
DetectLanguageKeepingCase(outcome, content) ==
    CASE outcome = "throw"     -> English
      [] outcome = "no_choice" -> English
      [] outcome = "null"      -> English
      [] outcome = "content"   -> IF Truthy(content) THEN content ELSE English

\* completion.choices?.[0]?.message?.content?.toLowerCase() || "english", and
\* "english" from the catch.  With no choice, language.ts gets undefined from
\* the optional chain and autoResponder.ts a TypeError that its catch turns
\* into "english".
DetectLanguage(outcome, content) ==
    CASE outcome = "throw"     -> English
      [] outcome = "no_choice" -> English
      [] outcome = "null"      -> English
      [] outcome = "content"   ->
            IF Truthy(ToLowerCase(content)) THEN ToLowerCase(content) ELSE English

\* detectLanguage(text): the completion request is sent
DetectCall ==
    /\ detect.pc \in {"idle", "returned"}
    /\ \E text \in Utterances \cup {NoText}, source \in {"language", "autoResponder"} :
         detect' = [DetectIdle EXCEPT !.pc = "awaiting", !.text = text,
                                      !.source = source]
    /\ UNCHANGED <<hookVars, stream, mappings, ragFiles, setreq, files, stt, clock>>

\* the completion comes back, or throws, and detectLanguage returns
DetectReturn ==
    /\ detect.pc = "awaiting"
    /\ \E outcome \in CompletionOutcomes, content \in Contents :
         /\ outcome # "content" => content = NoText
         /\ detect' = [detect EXCEPT !.pc = "returned", !.outcome = outcome,
                                     !.content = content,
                                     !.result = DetectLanguage(outcome, content)]
    /\ UNCHANGED <<hookVars, stream, mappings, ragFiles, setreq, files, stt, clock>>

InitDetect == HookIdle /\ OthersIdle

NextDetect == DetectCall \/ DetectReturn

SpecDetect == InitDetect /\ [][NextDetect]_vars
---------------------------------------------------------------------------
(* POST of the chat route:                                                 *)
(*   "stream"  src/unnamed/part_006 11-153 (the same code: part_007,       *)
(*             update-phone-settings/route.ts 107-251 and chat/route.ts    *)
(*             128-252), which answers with a stream                       *)
(*   "plain"   src/src/app/api/chat/route.ts 21-116, which answers with    *)
(*             the whole text and with status 200 from its catch           *)
(* Each request is a process and each await a step, so the requests and    *)
(* the streams that are under way interleave.                              *)

ChatRoutes == {"stream", "plain"}

\* the message of the body; a body without session_id or without message is
\* answered with status 400
ChatMessages == {U_hello, <<" ", "H", "i", " ">>, U_Know}

\* const SMALL_TALK and isSmallTalk(message)
SMALL_TALK ==
    {<<"h","i">>, <<"h","e","l","l","o">>, <<"h","e","y">>, <<"o","k">>,
     <<"o","k","a","y">>, <<"t","h","a","n","k","s">>,
     <<"t","h","a","n","k"," ","y","o","u">>, <<"b","y","e">>}
IsSmallTalk(message) == ToLowerCase(Trim(message)) \in SMALL_TALK

\* the texts the plain route answers with besides the completion
SmallTalkReply == <<"Hi :) Kaise help kar sakta hoon?">>
NoInfoAnswer   == <<"Abhi ispe exact info available nahi hai :)">>
Apology        == <<"Thoda sa issue aa gaya :( Please thodi der baad try karein.">>

\* completion.choices[0]?.message?.content of the plain route
Answers == {<<"H", "e", "y">>, NoText}

\* chunk.choices[0]?.delta?.content of the chunks of a streamed completion;
\* a chunk without content (undefined or "") is NoText
Fragments == {<<"H", "e">>, <<"y">>, NoText}

\* new TextEncoder().encode(content), on the characters the fragments use
Utf8(c) == CASE c = "H" -> 72 [] c = "e" -> 101 [] c = "y" -> 121
Encode(content) == [i \in 1..Len(content) |-> Utf8(content[i])]

\* a loop body that would enqueue every chunk
EnqueuedAlways(queue, content) == Append(queue, Encode(content))

\* if (content) controller.enqueue(encoder.encode(content))
Enqueued(queue, content) ==
    IF Truthy(content) THEN Append(queue, Encode(content)) ELSE queue

\* the request is answered
ChatRespond(r, status, body) ==
    [stream EXCEPT ![r].pc = "done", ![r].status = status, ![r].body = body]

\* a throw inside the try: the catch of the stream route answers 500, the
\* one of the plain route 200 with an apology
ChatCaught(r) ==
    IF stream[r].route = "stream" THEN ChatRespond(r, 500, NoText)
                                  ELSE ChatRespond(r, 200, Apology)

\* the plain route goes on without context after a failed embedding or
\* retrieval (its inner catch), the stream route leaves through its catch
ChatWithoutContext(r) ==
    IF stream[r].route = "stream" THEN ChatCaught(r)
                                  ELSE [stream EXCEPT ![r].pc = "history"]

\* POST is called by a request, which takes the lowest free slot, and
\* `await req.json()` is under way
ChatPost(r) ==
    /\ stream[r].pc \in {"idle", "done", "closed", "errored"}
    /\ \A q \in ChatReqs : q < r => stream[q].pc \notin {"idle", "done", "closed", "errored"}
    /\ \E route \in ChatRoutes :
         stream' = [stream EXCEPT ![r] = [StreamIdle EXCEPT !.pc = "json",
                                                           !.route = route]]
    /\ UNCHANGED <<hookVars, detect, mappings, ragFiles, setreq, files, stt, clock>>

\* `await req.json()` ends: a throw, a body without session_id or message
\* (400), small talk in the plain route (200 without any call), or
\* embedText(message) is called
ChatJson(r) ==
    /\ stream[r].pc = "json"
    /\ \/ stream' = ChatCaught(r)
       \/ stream' = ChatRespond(r, 400, NoText)
       \/ \E message \in ChatMessages :
            stream' = IF stream[r].route = "plain" /\ IsSmallTalk(message)
                        THEN ChatRespond(r, 200, SmallTalkReply)
                        ELSE [stream EXCEPT ![r].pc = "embed"]
    /\ UNCHANGED <<hookVars, detect, mappings, ragFiles, setreq, files, stt, clock>>

\* `await embedText(message)` ends: with an embedding, with nothing (the
\* stream route answers 500), or with a throw
ChatEmbed(r) ==
    /\ stream[r].pc = "embed"
    /\ \/ stream' = [stream EXCEPT ![r].pc = "retrieve"]
       \/ stream' = IF stream[r].route = "stream"
                      THEN ChatRespond(r, 500, NoText)
                      ELSE [stream EXCEPT ![r].pc = "history"]
       \/ stream' = ChatWithoutContext(r)
    /\ UNCHANGED <<hookVars, detect, mappings, ragFiles, setreq, files, stt, clock>>

\* `await retrieveRelevantChunks(...)` ends: with matches or with none, or
\* with a throw
ChatRetrieve(r) ==
    /\ stream[r].pc = "retrieve"
    /\ \/ \E hasContext \in BOOLEAN :
            stream' = [stream EXCEPT ![r].pc = "history", ![r].context = hasContext]
       \/ stream' = ChatWithoutContext(r)
    /\ UNCHANGED <<hookVars, detect, mappings, ragFiles, setreq, files, stt, clock>>

\* the select of the history ends; its error is not read
ChatHistory(r) ==
    /\ stream[r].pc = "history"
    /\ \/ stream' = [stream EXCEPT ![r].pc = "create"]
       \/ stream' = ChatCaught(r)
    /\ UNCHANGED <<hookVars, detect, mappings, ragFiles, setreq, files, stt, clock>>

\* `await groq.chat.completions.create(...)` ends.  The stream route makes
\* the ReadableStream, whose start(controller) asks the completion for its
\* first chunk, and returns the Response; the plain route answers with the
\* content, or with NoInfoAnswer when there is none.
ChatCreate(r) ==
    /\ stream[r].pc = "create"
    /\ \/ stream' = ChatCaught(r)
       \/ /\ stream[r].route = "stream"
          /\ stream' = [stream EXCEPT ![r].pc = "streaming", ![r].status = 200]
       \/ /\ stream[r].route = "plain"
          /\ \E content \in Answers :
               stream' = ChatRespond(r, 200, IF Truthy(content) THEN content
                                             ELSE NoInfoAnswer)
    /\ UNCHANGED <<hookVars, detect, mappings, ragFiles, setreq, files, stt, clock>>

\* one turn of `for await (const chunk of completion)` in start(controller):
\* the iterator throws (controller.error), ends (controller.close), or gives
\* the next chunk
StreamStep(r) ==
    /\ stream[r].pc = "streaming"
    /\ \/ stream' = [stream EXCEPT ![r].pc = "errored", ![r].errors = @ + 1]
       \/ stream' = [stream EXCEPT ![r].pc = "closed", ![r].closes = @ + 1]
       \/ /\ Len(stream[r].chunks) < MaxFragments
          /\ \E chunk \in Fragments :
               stream' = [stream EXCEPT ![r].chunks = Append(@, chunk),
                                        ![r].next = @ + 1,
                                        ![r].queue = Enqueued(@, chunk)]
    /\ UNCHANGED <<hookVars, detect, mappings, ragFiles, setreq, files, stt, clock>>

InitChat == HookIdle /\ OthersIdle

NextChat ==
    \E r \in ChatReqs :
        \/ ChatPost(r) \/ ChatJson(r) \/ ChatEmbed(r) \/ ChatRetrieve(r)
        \/ ChatHistory(r) \/ ChatCreate(r) \/ StreamStep(r)

SpecChat == InitChat /\ [][NextChat]_vars
---------------------------------------------------------------------------
(* The settings routes, for one phone number:                              *)
(*   "update"      POST of src/src/app/api/update-phone-settings/route.ts  *)
(*                 4-91                                                    *)
(*   "update_v0"   POST of src/unnamed/part_005, which answers 404 for a   *)
(*                 number without mapping                                  *)
(*   "generate"    POST of src/unnamed/part_004 147-282                    *)
(*                 (generate-system-prompt)                                *)
(*   "generate_v0" POST of src/unnamed/part_004 9-137, which does not read *)
(*                 the result of its write                                 *)

SettingsRoutes == {"update", "update_v0", "generate", "generate_v0"}
UpdateRoutes == {"update", "update_v0"}

\* the fields of the body besides phone_number: each absent (undefined),
\* null, or a value, which for request r is r.  The generate routes read
\* intent alone.
SettingsFields == {"intent", "system_prompt", "auth_token", "origin"}
SettingsBodies(route) ==
    IF route \in UpdateRoutes
      THEN [SettingsFields -> {"absent", "null", "value"}]
      ELSE {[NoBody EXCEPT !["intent"] = v] : v \in {"absent", "null", "value"}}

\* `x !== undefined`, `x ?? null`, and the truthiness of x
Given(r, f) == setreq[r].body[f] # "absent"
ValueOf(r, f) == IF setreq[r].body[f] = "value" THEN r ELSE Null
Set(r, f) == setreq[r].body[f] = "value"

SettingsRespond(r, status) ==
    [setreq EXCEPT ![r].pc = "done", ![r].status = status]

\* `await req.json()`, which throws on a body that is no JSON (status 500),
\* and the validation: phone_number, and in the generate routes intent, are
\* required (status 400)
SettingsPost(r) ==
    /\ setreq[r].pc = "idle"
    /\ \A q \in SettingsReqs : q < r => setreq[q].pc # "idle"
    /\ \E route \in SettingsRoutes :
         \/ setreq' = [setreq EXCEPT ![r].route = route, ![r].pc = "done",
                                     ![r].status = 500]
         \/ setreq' = [setreq EXCEPT ![r].route = route, ![r].pc = "done",
                                     ![r].status = 400]
         \/ \E body \in SettingsBodies(route) :
              IF route \notin UpdateRoutes /\ body["intent"] # "value"
                THEN setreq' = [setreq EXCEPT ![r].route = route, ![r].body = body,
                                   ![r].pc = "done", ![r].status = 400]
                ELSE setreq' = [setreq EXCEPT ![r].route = route, ![r].body = body,
                                   ![r].pc = IF route \in UpdateRoutes THEN "read"
                                             ELSE "generate"]
    /\ UNCHANGED <<hookVars, detect, stream, mappings, ragFiles, files, stt, clock>>

\* generate routes: groq.chat.completions.create; the prompt generated for
\* request r is r; no content, or a throw, is answered with status 500
SettingsGenerate(r) ==
    /\ setreq[r].pc = "generate"
    /\ \/ setreq' = [setreq EXCEPT ![r].generated = r, ![r].pc = "read"]
       \/ setreq' = SettingsRespond(r, 500)
    /\ UNCHANGED <<hookVars, detect, stream, mappings, ragFiles, files, stt, clock>>

\* the rows read have a file id among them
HasFile(rows) == \E i \in 1..Len(rows) : rows[i].file_id # Null

\* select ... .eq("phone_number", phone_number).  The update routes throw a
\* fetch error; the generate routes do not read it and go on without rows.
\* Without rows part_005 answers 404.
SettingsRead(r) ==
    /\ setreq[r].pc = "read"
    /\ \/ setreq' = IF mappings = <<>> /\ setreq[r].route = "update_v0"
                      THEN SettingsRespond(r, 404)
                      ELSE [setreq EXCEPT ![r].found = (mappings # <<>>),
                                          ![r].fileIds = HasFile(mappings),
                                          ![r].pc = "write"]
       \/ setreq' = IF setreq[r].route \in UpdateRoutes
                      THEN SettingsRespond(r, 500)
                      ELSE [setreq EXCEPT ![r].found = FALSE, ![r].pc = "write"]
    /\ UNCHANGED <<hookVars, detect, stream, mappings, ragFiles, files, stt, clock>>

\* .insert({phone_number, intent: intent ?? null, ..., file_id: null}); the
\* generate routes insert intent and system_prompt, and the other columns
\* are null
MappingRow(r) ==
    IF setreq[r].route \in UpdateRoutes
      THEN [intent |-> ValueOf(r, "intent"),
            system_prompt |-> ValueOf(r, "system_prompt"),
            auth_token |-> ValueOf(r, "auth_token"),
            origin |-> ValueOf(r, "origin"), file_id |-> Null]
      ELSE [intent |-> ValueOf(r, "intent"), system_prompt |-> setreq[r].generated,
            auth_token |-> Null, origin |-> Null, file_id |-> Null]

\* .update(updateData).eq("phone_number", phone_number) on one row:
\* updateData holds the fields that are not undefined; the generate routes
\* update intent and system_prompt
UpdatedRow(row, r) ==
    IF setreq[r].route \in UpdateRoutes
      THEN [f \in DOMAIN row |->
              IF f \in SettingsFields /\ Given(r, f) THEN ValueOf(r, f) ELSE row[f]]
      ELSE [row EXCEPT !.intent = ValueOf(r, "intent"),
                       !.system_prompt = setreq[r].generated]

\* the table after the write of request r: an update of the rows of the
\* phone number when the read found some, an insert of a new row if not
Written(r) ==
    IF setreq[r].found
      THEN [i \in 1..Len(mappings) |-> UpdatedRow(mappings[i], r)]
      ELSE Append(mappings, MappingRow(r))

\* the order in which the writes were applied
LastApplied ==
    LET S == {setreq[q].applied : q \in SettingsReqs}
    IN  CHOOSE n \in S : \A k \in S : k <= n

\* the fields of rag_files the update routes sync after an update: route.ts
\* 60-68 those that are not undefined, part_005 46-54 those that are truthy
SyncFields(r) ==
    {f \in {"auth_token", "origin"} :
        IF setreq[r].route = "update" THEN Given(r, f) ELSE Set(r, f)}
SyncNeeded(r) ==
    /\ setreq[r].route \in UpdateRoutes
    /\ setreq[r].found /\ setreq[r].fileIds
    /\ SyncFields(r) # {}

\* the update or the insert.  An error of the store is thrown and answered
\* with status 500, except in part_004 9-137, which does not read it.  After
\* an update the update routes go on to sync the credentials to the files
\* of the rows they read, if there are any.
SettingsWrite(r) ==
    /\ setreq[r].pc = "write"
    /\ \/ /\ mappings' = Written(r)
          /\ setreq' = IF SyncNeeded(r)
                         THEN [setreq EXCEPT ![r].pc = "sync",
                                             ![r].applied = LastApplied + 1]
                         ELSE [setreq EXCEPT ![r].pc = "done", ![r].status = 200,
                                             ![r].applied = LastApplied + 1]
       \/ /\ mappings' = mappings
          /\ setreq' = SettingsRespond(r, IF setreq[r].route = "generate_v0"
                                            THEN 200 ELSE 500)
    /\ UNCHANGED <<hookVars, detect, stream, ragFiles, files, stt, clock>>

\* rag_files.update(fileUpdate).in("id", fileIds), then the success
\* response; an error is thrown and answered with status 500
SettingsSync(r) ==
    /\ setreq[r].pc = "sync"
    /\ \/ /\ ragFiles' = [f \in DOMAIN ragFiles |->
                            IF f \in SyncFields(r) THEN ValueOf(r, f) ELSE ragFiles[f]]
          /\ setreq' = SettingsRespond(r, 200)
       \/ /\ ragFiles' = ragFiles
          /\ setreq' = SettingsRespond(r, 500)
    /\ UNCHANGED <<hookVars, detect, stream, mappings, files, stt, clock>>

\* the phone number has no mapping yet, or one row that maps a file to it
InitSettings ==
    /\ HookIdle
    /\ detect = DetectIdle
    /\ stream = [r \in ChatReqs |-> StreamIdle]
    /\ mappings \in {<<>>, <<MappedRow>>}
    /\ ragFiles = NoCredentials
    /\ setreq = [r \in SettingsReqs |-> SetReqIdle]
    /\ files = [f \in Paths |-> NoFile]
    /\ stt = [c \in SttSlots |-> SttIdle]
    /\ clock = 1

NextSettings ==
    \E r \in SettingsReqs :
        \/ SettingsPost(r) \/ SettingsGenerate(r) \/ SettingsRead(r)
        \/ SettingsWrite(r) \/ SettingsSync(r)

SpecSettings == InitSettings /\ [][NextSettings]_vars
---------------------------------------------------------------------------
(* speechToText called on its own: speechToText(audioUrl) of                *)
(* speechToText.ts, and speechToText(audioBuffer) of src/unnamed/part_003  *)
(* 9-25, "buffer"                                                          *)

\* speechToText(audioUrl) is called and fetch(audioUrl) is under way; or
\* speechToText(audioBuffer) is called: it writes the audio it was given to
\* /tmp/audio-${Date.now()}.ogg at once and hands a read stream on the path
\* to the client
SttCall(c) ==
    /\ stt[c].pc = "idle"
    /\ \A d \in SpeechCalls : d < c => stt[d].pc # "idle"
    /\ \/ /\ \E v \in SttVersions :
               stt' = [stt EXCEPT ![c].pc = "download", ![c].version = v,
                                  ![c].audio = c]
          /\ files' = files
       \/ LET path == PathOf("buffer", clock)
          IN  /\ stt' = [stt EXCEPT ![c].pc = "opening", ![c].version = "buffer",
                                    ![c].audio = c, ![c].path = path]
              /\ files' = [files EXCEPT ![path] =
                             [exists |-> TRUE, content |-> c, writer |-> c]]
    /\ UNCHANGED <<hookVars, detect, stream, mappings, ragFiles, setreq, clock>>

\* the steps of a call that no responder waits for
SttAwait(c) ==
    /\ SpeechStep(c)
    /\ UNCHANGED <<hookVars, detect, stream, mappings, ragFiles, setreq, clock>>

InitSpeech == HookIdle /\ OthersIdle

NextSpeech ==
    \/ Tick
    \/ \E c \in SpeechCalls :
         SttCall(c) \/ SttAwait(c)

SpecSpeech == InitSpeech /\ [][NextSpeech]_vars
---------------------------------------------------------------------------
(* Vocabulary of the properties *)

Done(p) == req[p].pc = "done"

\* the request was valid, carried its media when audio, and has been
\* acknowledged with status 200
Acknowledged(p) ==
    /\ Done(p) /\ req[p].resp.status = 200
    /\ req[p].payload.contentType = "audio" => req[p].payload.mediaUrl

StoredInbound(id) ==
    Cardinality({i \in 1..Len(messages) : messages[i].message_id = InboundId(id)})

Delivered(id) ==
    Cardinality({i \in 1..Len(sends[id]) : sends[id][i].outcome = "ok"})

Collaborators ==
    {"transcribe", "detect_language", "embed", "retrieve", "generate", "send"}

\* the utterances that contain a reject keyword, whatever their case
RejectUtterances ==
    {u \in Utterances : \E k \in NEGATIVE_KEYWORDS : Includes(ToLowerCase(u), k)}
ResetUtterances == {u \in Utterances : ResetIntent(u)}

\* request p takes a step out of position pc
Leaves(p, pc) == req[p].pc = pc /\ req'[p].pc # pc

SessionStateOf(p) == sessions[KeyOf(p)].conversation_state

\* request p has made the call `name`
Made(p, name) == \E i \in 1..Len(calls[p]) : calls[p][i] = name

\* the send attempts made for the message id of request p
SendsOf(p) == sends[req[p].payload.messageId]

\* the number of generation calls request p has made
GenerateCalls(p) == Cardinality({i \in 1..Len(calls[p]) : calls[p][i] = "generate"})

\* the last call request p has made is `name`
LastCall(p, name) == calls[p] # <<>> /\ calls[p][Len(calls[p])] = name

\* the positions S of the table in the order the rows were stored
Ascending(S) ==
    [k \in 1..Cardinality(S) |->
        CHOOSE i \in S : Cardinality({j \in S : j < i}) = k - 1]

\* the stored rows with a text that the user of request p sent or received,
\* in the order they were stored, as positions in the table; and those but
\* p's own inbound row
UserTextRows(p) ==
    SelectSeq(Ascending(OfUser(messages, req[p].payload.from)),
              LAMBDA i : Truthy(messages[i].content_text))
IsCurrentRow(p, i) == messages[i].message_id = InboundId(req[p].payload.messageId)
EarlierTextRows(p) == SelectSeq(UserTextRows(p), LAMBDA i : ~IsCurrentRow(p, i))

\* row i belongs to the conversation of request p
InConversation(p, i) ==
    {messages[i].from_number, messages[i].to_number}
        = {req[p].payload.from, req[p].payload.to}

\* the text starts with the greeting prefix
HasGreeting(text) == Len(text) >= 3 /\ SubSeq(text, 1, 3) = <<"H", "i", " ">>

\* the delivered replies that carry the greeting, and all the send attempts
GreetedDeliveries ==
    {x \in MsgIds \X (1..(2 * (MaxEvents + 1))) :
        /\ x[2] <= Len(sends[x[1]])
        /\ sends[x[1]][x[2]].outcome = "ok"
        /\ HasGreeting(sends[x[1]][x[2]].text)}
SendAttempts ==
    {x \in MsgIds \X (1..(2 * (MaxEvents + 1))) : x[2] <= Len(sends[x[1]])}

\* the fixed no-information replies
NoInformationReplies ==
    {Fallback(l) : l \in {"hinglish", "hindi", "gujarati", "english"}}

---------------------------------------------------------------------------
(* Properties *)

\* C1: an event submitted twice (the same payload, in two requests that
\* overlap or not), both submissions acknowledged, leaves exactly one stored
\* inbound message with that id and at most one delivered reply for it.
C1_SameIdTwiceStoredOnce ==
    \A p, q \in Procs :
        ( /\ p # q
          /\ Acknowledged(p) /\ Acknowledged(q)
          /\ req[p].payload = req[q].payload )
        => /\ StoredInbound(req[p].payload.messageId) = 1
           /\ Delivered(req[p].payload.messageId) <= 1

\* the reply half of C1 alone: at most one reply is delivered for a message id
AtMostOneReplyPerId == \A id \in MsgIds : Delivered(id) <= 1

\* C2: a request whose insert hit the uniqueness violation is answered with
\* the duplicate success response at once, and that insert is the last call
\* it makes: the responder is not entered.
C2_DuplicateStopsProcessing ==
    \A p \in Procs :
        (\E i \in 1..Len(calls[p]) : calls[p][i] = "insert_duplicate")
        => /\ Done(p)
           /\ req[p].resp = JsonDuplicate
           /\ ~req[p].result.returned
           /\ calls[p][Len(calls[p])] = "insert_duplicate"
           /\ \A i \in 1..Len(calls[p]) :
                 calls[p][i] \in {"transcribe", "insert_duplicate"}

C2_Witness ==
    \E p \in Procs :
        /\ req[p].resp = JsonDuplicate
        /\ StoredInbound(req[p].payload.messageId) = 1

\* C3: no collaborator is called by a request before its dedup insert.
C3_InsertBeforeCollaborators ==
    \A p \in Procs : \A i \in 1..Len(calls[p]) :
        calls[p][i] \in Collaborators
        => \E j \in 1..(i - 1) : calls[p][j] \in {"insert", "insert_duplicate"}

\* C4: a session that is STOPPED is never overwritten with another state by a
\* turn that read it before the stop was persisted (the code has no other way
\* out of STOPPED, so every such step is that overwrite).
C4_StoppedNeverOverwritten ==
    [][\A k \in ConvKeys :
          sessions[k].conversation_state = "STOPPED"
          => sessions'[k].conversation_state = "STOPPED"]_vars

\* C5: a turn that reads a session that is not STOPPED and whose utterance
\* contains a reject keyword, in any case, takes the stop path; the stop path
\* writes STOPPED and then sends exactly the polite close text.
C5_RejectStopsAndCloses ==
    [][\A p \in Procs :
          /\ ( /\ Leaves(p, "ses_read")
               /\ SessionStateOf(p) # "STOPPED"
               /\ req[p].finalUserText \in RejectUtterances )
             => req'[p].pc = "ses_stop"
          /\ Leaves(p, "ses_stop")
             => /\ sessions'[KeyOf(p)].conversation_state = "STOPPED"
                /\ req'[p].pc = "ses_stop_send"
          /\ Leaves(p, "ses_stop_send")
             => /\ Len(sends'[req[p].payload.messageId])
                     = Len(sends[req[p].payload.messageId]) + 1
                /\ sends'[req[p].payload.messageId]
                       [Len(sends'[req[p].payload.messageId])].text = PoliteClose
       ]_vars

\* C6: a request received while the session is STOPPED, and that is no reset,
\* gets no reply, and the session is STOPPED when it has been handled.
C6_StoppedIsTerminal ==
    \A p \in Procs :
        (req[p].stoppedAtReceipt /\ req[p].payload.text \notin ResetUtterances)
        => /\ sends[req[p].payload.messageId] = <<>>
           /\ Done(p) => SessionStateOf(p) = "STOPPED"

\* C7: a turn whose utterance contains both a reset keyword and a reject
\* keyword never writes a state other than STOPPED: from a session that is not
\* STOPPED it takes the stop path and writes STOPPED, from a STOPPED session it
\* returns and leaves the session as it is.
C7_RejectBeatsReset ==
    [][\A p \in Procs :
          (req[p].finalUserText \in RejectUtterances \cap ResetUtterances)
          => /\ Leaves(p, "ses_read")
                => IF SessionStateOf(p) = "STOPPED"
                     THEN Done(p)' /\ sessions' = sessions
                     ELSE req'[p].pc = "ses_stop"
             /\ Leaves(p, "ses_stop")
                => /\ sessions'[KeyOf(p)].conversation_state = "STOPPED"
                   /\ req'[p].pc = "ses_stop_send"
             /\ Leaves(p, "ses_stop_send")
                => Done(p)' /\ sessions' = sessions
       ]_vars

\* C8: a reset utterance that is no reject, received while the session is
\* STOPPED, reopens the conversation: once handled, the session is no longer
\* STOPPED and a reply has been sent for it.
C8_ResetReopens ==
    \A p \in Procs :
        ( /\ Done(p) /\ req[p].result.returned
          /\ req[p].stoppedAtReceipt
          /\ req[p].payload.text \in ResetUtterances \ RejectUtterances )
        => /\ sends[req[p].payload.messageId] # <<>>
           /\ SessionStateOf(p) # "STOPPED"

\* C9: a reply whose delivery did not succeed is not marked sent: no outbound
\* row is stored for the message id and its inbound row is not flagged.
C9_FailedDeliveryNotMarked ==
    \A id \in MsgIds :
        Delivered(id) = 0
        => /\ ~HasMessage(AutoId(id))
           /\ ~RowSent(InboundId(id))

\* C10: a turn whose reply was generated and whose delivery failed, by a
\* failure result or by a throw, has persisted its session transition when it
\* returns.
C10_SessionSavedOnDeliveryFailure ==
    \A p \in Procs :
        ( /\ Done(p) /\ req[p].result.returned
          /\ \E i \in 1..Len(calls[p]) : calls[p][i] = "generate"
          /\ \E i \in 1..Len(sends[req[p].payload.messageId]) :
                sends[req[p].payload.messageId][i].outcome \in {"fail", "throw"} )
        => \E i \in 1..Len(calls[p]) : calls[p][i] = "session_upsert"

\* C11: a turn whose reply was delivered successfully has, when it returns,
\* persisted the session, stored the outbound message and flagged the inbound
\* message as responded.
C11_DeliveredReplyIsRecorded ==
    \A p \in Procs :
        ( /\ Done(p) /\ req[p].result.returned
          /\ Delivered(req[p].payload.messageId) >= 1 )
        => /\ sessions[KeyOf(p)].exists
           /\ HasMessage(AutoId(req[p].payload.messageId))
           /\ RowSent(InboundId(req[p].payload.messageId))

\* C12: a turn whose outbound insert failed after the delivery goes on to flag
\* the inbound message as responded and returns success, and exactly one
\* reply has been delivered for its message id, redeliveries included.
C12_FailedReplyInsertStillMarked ==
    \A p \in Procs :
        Made(p, "insert_reply_error")
        => /\ Delivered(req[p].payload.messageId) = 1
           /\ ~Done(p) => req[p].pc = "rag_mark"
           /\ Done(p) => /\ RowSent(InboundId(req[p].payload.messageId))
                         /\ req[p].result.success

\* C13: an audio event whose transcription gave no text, once acknowledged, is
\* stored as an inbound message that is not flagged responded, and no reply
\* was attempted by its request.
C13_FailedTranscriptionRecorded ==
    \A p \in Procs :
        ( /\ Done(p) /\ req[p].resp.status = 200
          /\ req[p].payload.contentType = "audio"
          /\ Made(p, "transcribe")
          /\ ~Truthy(req[p].finalUserText) )
        => /\ StoredInbound(req[p].payload.messageId) = 1
           /\ ~RowSent(InboundId(req[p].payload.messageId))
           /\ ~Made(p, "send")

\* C14: a call of the responder with a media URL and no text, whose
\* transcription gave no text, has returned a failure, and has neither written
\* the session nor called the generation or the delivery collaborator.
C14_NoTranscriptNoTurn ==
    \A p \in Procs :
        ( /\ req[p].mediaUrl
          /\ Made(p, "speech_to_text")
          /\ ~Truthy(req[p].finalText) )
        => /\ Done(p)
           /\ req[p].result.returned /\ ~req[p].result.success
           /\ ~Made(p, "session_upsert") /\ ~Made(p, "session_upsert_error")
           /\ ~Made(p, "generate")
           /\ ~Made(p, "send")
           /\ SendsOf(p) = <<>>

C14_Witness ==
    \E p \in Procs :
        /\ Done(p) /\ req[p].mediaUrl
        /\ calls[p] = <<"session_read", "speech_to_text">>
        /\ ~req[p].result.success

\* C15: an event of a kind other than MoMessage never enters the responder:
\* its request calls nothing but the transcription of its audio and the
\* insert, so it changes no session, generates nothing and sends nothing; and
\* when the request is answered the event is stored once and the answer is a
\* success.
C15_EchoStoredNeverAnswered ==
    \A p \in Procs :
        (req[p].pc # "idle" /\ req[p].payload.event # "MoMessage")
        => /\ \A i \in 1..Len(calls[p]) :
                 calls[p][i] \in {"transcribe", "insert", "insert_duplicate",
                                  "insert_error"}
           /\ ~req[p].result.returned
           /\ Done(p) => /\ req[p].resp.status = 200 /\ req[p].resp.success
                          /\ StoredInbound(req[p].payload.messageId) = 1

\* C16: a turn on a user text that is not blank, for a session that was not
\* STOPPED, has attempted the delivery of a non-empty reply when it returns.
C16_EveryTurnAnswered ==
    \A p \in Procs :
        ( /\ Done(p) /\ req[p].result.returned
          /\ Truthy(Trim(req[p].finalUserText))
          /\ ~req[p].stoppedAtReceipt )
        => /\ Made(p, "send")
           /\ \A i \in 1..Len(SendsOf(p)) : Truthy(SendsOf(p)[i].text)

\* C17: no turn returns the failure of an empty generation: an empty content
\* is replaced by the fallback text, which is sent.
C17_EmptyGenerationFallsBack ==
    \A p \in Procs :
        (req[p].result.returned /\ Made(p, "generate") /\ ~Made(p, "send"))
        => req[p].result.error # "LLM returned empty response"

\* C18: a turn whose embedding failed (the index was not queried) still calls
\* the generation collaborator and attempts the delivery of a reply.
C18_EmbeddingFailureDegrades ==
    \A p \in Procs :
        (Done(p) /\ Made(p, "embed") /\ ~Made(p, "retrieve"))
        => Made(p, "generate") /\ Made(p, "send")

\* C19: a turn that found no document mapped to the business number has sent
\* the fixed no-information reply and has not called the generation
\* collaborator.
C19_EmptyScopeFixedReply ==
    \A p \in Procs :
        ( /\ Done(p) /\ req[p].result.returned
          /\ phoneCfg = "nofiles" /\ Made(p, "files") )
        => /\ ~Made(p, "generate")
           /\ Made(p, "send")
           /\ \A i \in 1..Len(SendsOf(p)) : SendsOf(p)[i].text \in NoInformationReplies

\* C20: a turn on the reject path (its utterance contains a reject keyword
\* and the session it read was not STOPPED) never calls the file mapping, the
\* embedding, the knowledge index or the generation collaborator, every text
\* it sends is the close text, and it has sent it once when it returns.
C20_RejectPathBypassesGeneration ==
    \A p \in Procs :
        ( /\ req[p].payload.text \in RejectUtterances
          /\ Truthy(req[p].finalText) )
        => /\ \A i \in 1..Len(calls[p]) :
                 calls[p][i] \in {"insert", "session_read", "session_read_error",
                                  "session_upsert", "session_upsert_error", "send"}
           /\ \A i \in 1..Len(SendsOf(p)) : SendsOf(p)[i].text = PoliteClose
           /\ (Done(p) /\ req[p].result.returned) => Len(SendsOf(p)) = 1

C20_Witness ==
    \E p \in Procs :
        /\ Done(p) /\ req[p].payload.text = U_Know
        /\ calls[p] = <<"insert", "session_read", "session_upsert", "send">>
        /\ phoneCfg = "full"
        /\ SendsOf(p) = <<[dest |-> User, text |-> PoliteClose, outcome |-> "ok"]>>

\* C21: a request calls the generation collaborator at most once, and a
\* request that ended on its generation call returned a failure.
C21_GenerationAtMostOnce ==
    \A p \in Procs :
        /\ GenerateCalls(p) <= 1
        /\ (Done(p) /\ LastCall(p, "generate"))
             => req[p].result.returned /\ ~req[p].result.success

C21_Witness ==
    \E p \in Procs :
        /\ Done(p) /\ LastCall(p, "generate")
        /\ req[p].result.error = "thrown"
        /\ GenerateCalls(p) = 1

\* C22: the history of the generation request is the most recent HistorySlice
\* stored messages of the user, oldest first (with or without the inbound
\* message of the turn itself), however many messages are stored.
C22_HistoryIsMostRecent ==
    \A p \in Procs :
        req[p].pc = "rag_llm"
        => GenerationRequest(p).history
             \in { LastN(UserTextRows(p), HistorySlice),
                   LastN(EarlierTextRows(p), HistorySlice) }

\* C23: the history of the generation request does not hold the inbound
\* message of the turn itself.
C23_HistoryExcludesCurrent ==
    \A p \in Procs :
        req[p].pc = "rag_llm"
        => \A k \in 1..Len(GenerationRequest(p).history) :
              ~IsCurrentRow(p, GenerationRequest(p).history[k])

\* C24: every message of the history loaded for a turn was exchanged between
\* the user and the business number of that turn.
C24_HistoryOfOwnConversation ==
    \A p \in Procs :
        req[p].pc = "rag_llm"
        => \A k \in 1..Len(req[p].history) : InConversation(p, req[p].history[k])

\* C25: the context block is empty, and the prompt then carries the
\* placeholder, or it is the text of the k best chunks of the index, k at most
\* TopK, in rank order, with a blank line between two chunks.
C25_ContextBlockIsRankedJoin ==
    \A p \in Procs :
        LET ctx == req[p].contextText
            k   == (Len(ctx) + 2) \div 3
        IN  \/ /\ ctx = <<>>
               /\ GenerationRequest(p).system = NoContextPlaceholder
            \/ /\ k \in 1..TopK
               /\ Len(ctx) = 3 * k - 2
               /\ \A i \in 1..k :
                     /\ ctx[3 * i - 2] = ChunkNames[i]
                     /\ i < k => ctx[3 * i - 1] = "\n" /\ ctx[3 * i] = "\n"
               /\ GenerationRequest(p).system = ctx

C25_Witness ==
    \E p \in Procs :
        /\ req[p].pc = "rag_llm"
        /\ Len(req[p].contextText) = 3 * TopK - 2
        /\ req[p].contextText[3 * TopK - 2] = ChunkNames[TopK]

\* C26: over the whole trace at most one delivered reply carries the greeting
\* prefix.
C26_GreetingAtMostOnce == Cardinality(GreetedDeliveries) <= 1

\* two replies have been delivered to a sender whose events carry a name, the
\* first of them on an empty history
C26_Witness ==
    \E p, q \in Procs :
        /\ req[p].payload.messageId # req[q].payload.messageId
        /\ Truthy(CleanUserName(req[p].payload.senderName))
        /\ Truthy(CleanUserName(req[q].payload.senderName))
        /\ Made(p, "history_error")
        /\ Len(SendsOf(p)) = 1 /\ SendsOf(p)[1].outcome = "ok"
        /\ Len(SendsOf(q)) = 1 /\ SendsOf(q)[1].outcome = "ok"

\* C27: the first reply sent in a conversation, for an event whose sender
\* name is not empty after cleaning, is the greeting with the cleaned name
\* followed by the generated text; a reply to an event without such a name
\* carries no greeting.
C27_FirstReplyGreets ==
    \A p \in Procs :
        (Made(p, "send") /\ Cardinality(SendAttempts) = 1)
        => IF Truthy(CleanUserName(req[p].payload.senderName))
             THEN SendsOf(p)[1].text
                    = GreetingPrefix(CleanUserName(req[p].payload.senderName)) \o LlmReply
             ELSE ~HasGreeting(SendsOf(p)[1].text)

\* C29: a turn that read no session, whose utterance contains a topic keyword
\* and no reject keyword, and that saved the session last, has moved it to
\* COLLECTING (or the session has been stopped by a concurrent turn).
C29_TopicStartsCollecting ==
    \A p \in Procs :
        ( /\ Done(p) /\ req[p].result.returned /\ req[p].result.success
          /\ req[p].sessionState = ""
          /\ TopicIntent(req[p].finalText)
          /\ LastCall(p, "session_upsert") )
        => sessions[KeyOf(p)].conversation_state \in {"COLLECTING", "STOPPED"}

\* C30: a processed turn that sent a text on any dispatch path and returned
\* success has written the session, and the session record exists.
C30_EveryTurnSavesSession ==
    \A p \in Procs :
        ( /\ Done(p) /\ req[p].result.returned /\ req[p].result.success
          /\ Made(p, "send") )
        => /\ Made(p, "session_upsert")
           /\ sessions[KeyOf(p)].exists

\* C31: a stored message is created once and then only its responded flag
\* changes: every step keeps the rows already stored in place, with their
\* id, sender, recipient, direction and text, and only appends rows.
C31_StoredRowsKeepIdentity ==
    [][ /\ Len(messages') >= Len(messages)
        /\ \A i \in 1..Len(messages) :
              [messages'[i] EXCEPT !.auto_respond_sent = messages[i].auto_respond_sent]
                  = messages[i] ]_vars

C31_Witness ==
    \E p \in Procs :
        /\ Made(p, "mark_responded")
        /\ RowSent(InboundId(req[p].payload.messageId))
        /\ HasMessage(AutoId(req[p].payload.messageId))

\* the calls that embed, retrieve, generate, deliver or record a reply
ReplyCalls ==
    {"embed", "retrieve", "generate", "send", "insert_reply", "insert_reply_error",
     "mark_responded", "mark_responded_error"}

\* C32: with the channel credentials of the business number missing, the
\* step of a request that reads the configuration ends the request with a
\* failure result; the request has made no embedding, generation or delivery
\* call, its message is not marked responded and no reply row is stored, and
\* the step changes nothing of the store, the sessions, the deliveries or the
\* other requests.
C32_MissingCredentialsAbort ==
    [][ \A p \in Procs :
          ( /\ phoneCfg = "nocreds"
            /\ req[p].pc \in {"rag_config", "grd_config"}
            /\ req'[p].pc # req[p].pc )
          => /\ req'[p].pc = "done"
             /\ req'[p].result.returned
             /\ ~req'[p].result.success
             /\ req'[p].result.sent # "true"
             /\ \A i \in 1..Len(calls'[p]) : calls'[p][i] \notin ReplyCalls
             /\ messages' = messages /\ sends' = sends /\ sessions' = sessions
             /\ ~RowSent(InboundId(req[p].payload.messageId))
             /\ ~HasMessage(AutoId(req[p].payload.messageId))
             /\ sends[req[p].payload.messageId] = <<>>
             /\ \A q \in Procs \ {p} : req'[q] = req[q] /\ calls'[q] = calls[q] ]_vars

C32_Witness ==
    \E p, q \in Procs :
        /\ p # q
        /\ Done(p) /\ req[p].result.error = "WhatsApp API credentials missing"
        /\ Made(p, "config")
        /\ req[q].pc = "rag_config"

\* the first call of each variant of generateAutoResponse
EntryCalls ==
    {"files", "session_read", "session_read_error", "responded_read",
     "responded_read_error"}

\* C33: no failure escapes. A request that is over has been answered with a
\* response (status 200, 400 or 500), and if it entered generateAutoResponse
\* the function returned a result value to the handler, whatever failed.
C33_NoFailureEscapes ==
    \A p \in Procs :
        Done(p) =>
            /\ req[p].resp.status \in {200, 400, 500}
            /\ (\E c \in EntryCalls : Made(p, c)) => req[p].result.returned

C33_Witness ==
    \E p, q \in Procs :
        /\ Done(p) /\ LastCall(p, "send")
        /\ req[p].result.returned /\ req[p].result.error = "thrown"
        /\ Done(q) /\ LastCall(q, "insert_error") /\ req[q].resp = Json500

\* C37: a request whose inbound message was stored is acknowledged with the
\* success response, whatever the result of the auto-responder.
C37_StoredIsAcknowledged ==
    \A p \in Procs :
        (Done(p) /\ Made(p, "insert"))
        => req[p].resp.status = 200 /\ req[p].resp.success

C37_Witness ==
    \E p, q \in Procs :
        /\ Done(p) /\ Made(p, "insert") /\ req[p].resp = JsonSuccess
        /\ req[p].result.returned /\ ~req[p].result.success
        /\ req[p].result.error = "send failed"
        /\ Done(q) /\ Made(q, "insert") /\ req[q].resp = JsonSuccess
        /\ req[q].result.error = "Failed to embed query"

\* the payload lacks the message id, the sender or the recipient
MissingRequired(pl) == pl.messageId = NoId \/ pl.from = "" \/ pl.to = ""

\* C38: the step that takes a payload without its message id, sender or
\* recipient answers it with status 400 at once and changes nothing else: no
\* row is stored, no call is made, no session and no delivery is touched; and
\* such a request never gets further.
C38_InvalidPayloadRejected ==
    [][ \A p \in Procs :
          /\ (req'[p] # req[p] /\ req'[p].parsed /\ MissingRequired(req'[p].payload))
             => /\ req'[p].pc = "done"
                /\ req'[p].resp = Json400
                /\ ~req'[p].result.returned
                /\ calls'[p] = <<>>
                /\ messages' = messages
                /\ sessions' = sessions
                /\ sends' = sends
          /\ (req[p].parsed /\ MissingRequired(req[p].payload))
             => req[p].pc = "done" /\ calls[p] = <<>> ]_vars

C38_Witness ==
    \E p \in Procs :
        /\ Done(p) /\ req[p].resp = Json400
        /\ MissingRequired(req[p].payload)
        /\ req[p].payload.contentType = "text"
        /\ \E q \in Procs : req[q].pc = "rag_send"

\* C36: whatever the number of invocations of the guard variant for one
\* inbound message id, one after the other or overlapping, at most one reply
\* is delivered for that id.
C36_GuardDeliversOnce ==
    \A id \in MsgIds :
        Cardinality({i \in 1..Len(sends[id]) : sends[id][i].outcome = "ok"}) <= 1

\* C35: whatever the text and whatever the completion call does, the result
\* of detectLanguage is a non-empty string in lower case, that is, without a
\* character that changes when lowercased, and it is "english" when the call
\* throws or gives no content.
C35_DetectLanguageSafe ==
    detect.pc = "returned" =>
        /\ detect.result # NoText
        /\ IsLowerCase(detect.result)
        /\ (detect.outcome # "content" \/ detect.content = NoText)
              => detect.result = English

C35_Witness ==
    /\ detect.pc = "returned"
    /\ detect.outcome = "content"
    /\ detect.content = <<"H", "U+03A3">>
    /\ detect.result = <<"h", "U+03C2">>

\* the encoded non-empty fragments among the first n chunks, in their order
EncodedFragments(chunks, n) ==
    LET kept == SelectSeq(SubSeq(chunks, 1, n), LAMBDA f : f # NoText)
    IN  [i \in 1..Len(kept) |-> Encode(kept[i])]

\* C34: what a stream has emitted is, at every moment, the non-empty
\* fragments of the chunks received so far, each once and in the order
\* received; a completion that ends is followed by one close and no error, a
\* completion that fails by one error and no close; and this whatever other
\* requests and streams are under way.
C34_StreamInOrderThenClose ==
    \A r \in ChatReqs :
        /\ stream[r].next = Len(stream[r].chunks) + 1
        /\ stream[r].queue = EncodedFragments(stream[r].chunks, stream[r].next - 1)
        /\ stream[r].closes + stream[r].errors <= 1
        /\ stream[r].pc = "streaming" => stream[r].closes = 0 /\ stream[r].errors = 0
        /\ stream[r].pc = "closed" => stream[r].closes = 1 /\ stream[r].errors = 0
        /\ stream[r].pc = "errored" => stream[r].closes = 0 /\ stream[r].errors = 1

\* a stream has closed after three chunks, the second of them empty, while
\* the stream of another request has failed after its first chunk
C34_Witness ==
    \E r, q \in ChatReqs :
        /\ stream[r].pc = "closed"
        /\ stream[r].chunks = << <<"H", "e">>, NoText, <<"y">> >>
        /\ stream[r].queue = << <<72, 101>>, <<121>> >>
        /\ stream[q].pc = "errored"
        /\ stream[q].queue = << <<121>> >>

\* the settings requests are all over, and the one whose write came last
SettingsSettled == \A r \in SettingsReqs : setreq[r].pc \in {"idle", "done"}
LastWriter == CHOOSE r \in SettingsReqs : setreq[r].applied = LastApplied

\* C39: when the settings requests for a phone number that had no mapping
\* are over and one of them has written, the number has exactly one mapping
\* row, with a null file id and the fields of the request that wrote last:
\* the row that request inserts, or a row its update leaves as it is.
C39_OneMappingRow ==
    (SettingsSettled /\ LastApplied > 0 /\ ~HasFile(mappings))
    => /\ Len(mappings) = 1
       /\ mappings[1].file_id = Null
       /\ mappings[1] \in {MappingRow(LastWriter),
                            UpdatedRow(mappings[1], LastWriter)}

\* C40: a speechToText call sends for transcription the audio it downloaded
\* and no other, deletes no file another call wrote, and once it has
\* returned the file it wrote is gone.
C40_TempFileNotShared ==
    \A c \in SpeechCalls :
        /\ \A i \in 1..Len(stt[c].sent) : stt[c].sent[i] = stt[c].audio
        /\ stt[c].unlinked \in {0, c}
        /\ stt[c].pc = "returned"
              => \A f \in Paths : ~(files[f].exists /\ files[f].writer = c)

===========================================================================
